---------------------------- MODULE Spec2Model ----------------------------
(***************************************************************************)
(* Verification model of the crypto-alert repository.                      *)
(*                                                                         *)
(* The repository holds four independent scripts; each run of the model    *)
(* is a run of ONE of them, chosen by the variable prog in Init:           *)
(*   "flask"   monitor_bybit_flask.py      monitor_loop                    *)
(*   "service" monitor_service.py          monitor_loop/analyze_symbol_tf  *)
(*   "all"     monitor_bybit_all_1m_3m_1h  main loop/analyze_variation     *)
(*   "crypto"  crypto_alert_1m_1h.py       monitor_loop/check_changes      *)
(*   "score"   monitor_bybit_flask.py      score_signals (pure function)   *)
(*   "report"  monitor_bybit_flask.py      build_and_send_wyckoff_report   *)
(*                                                                         *)
(* Numbers.  Python floats are modelled as exact rationals <<n, d>> with   *)
(* d > 0 and gcd(n, d) = 1; float rounding is not modelled.  None is the   *)
(* empty tuple <<>>.  Wall-clock time is an integer number of time units;  *)
(* in the flask script one unit is one hour (3600 s), so the defaults      *)
(* COOLDOWN_SECONDS = 7200, REPORT_4H_INTERVAL_SEC = 14400 ... are 2, 4,   *)
(* 24 and 168 units.  The clock starts at an epoch value that is at least  *)
(* as large as every configured interval, as time.time() is.               *)
(***************************************************************************)
EXTENDS Integers, Sequences, FiniteSets, TLC

(***************************************************************************)
(* Bounds of the model (not program constants).                            *)
(***************************************************************************)
\* Number of candles in a fetched series (the code asks for up to 120).
CandleLen == 35
\* How far the clock may advance beyond its start value.
Horizon == 3

(***************************************************************************)
(* Exact rational arithmetic.                                              *)
(***************************************************************************)
None == <<>>

Abs(x) == IF x < 0 THEN -x ELSE x

Min(a, b) == IF a <= b THEN a ELSE b

Max(a, b) == IF a >= b THEN a ELSE b

RECURSIVE GCD(_, _)
GCD(a, b) == IF b = 0 THEN a ELSE GCD(b, a % b)

\* n/d divided through by g, with a positive denominator.
Reduce(n, d, g) ==
    IF n = 0 THEN <<0, 1>>
    ELSE IF d < 0 THEN <<(-n) \div g, (-d) \div g>>
    ELSE <<n \div g, d \div g>>

\* n/d in lowest terms with a positive denominator (d # 0).
Rat(n, d) == Reduce(n, d, GCD(Abs(n), Abs(d)))

RInt(n) == <<n, 1>>

\* a + b over the common denominator a[2] * b[2] / g, g = gcd(a[2], b[2]).
AddOver(a, b, g) ==
    Rat(a[1] * (b[2] \div g) + b[1] * (a[2] \div g), (a[2] \div g) * b[2])

RAdd(a, b) == AddOver(a, b, GCD(a[2], b[2]))

RSub(a, b) == RAdd(a, <<-b[1], b[2]>>)

\* a * b with the cross factors g1 = gcd(|a[1]|, b[2]), g2 = gcd(|b[1]|, a[2])
\* cancelled first.
MulOver(a, b, g1, g2) ==
    IF a[1] = 0 \/ b[1] = 0 THEN <<0, 1>>
    ELSE <<(a[1] \div g1) * (b[1] \div g2), (a[2] \div g2) * (b[2] \div g1)>>

RMul(a, b) == MulOver(a, b, GCD(Abs(a[1]), b[2]), GCD(Abs(b[1]), a[2]))

RDiv(a, b) == RMul(a, Rat(b[2], b[1]))

LtOver(a, b, g) == a[1] * (b[2] \div g) < b[1] * (a[2] \div g)

RLt(a, b) == LtOver(a, b, GCD(a[2], b[2]))

RLe(a, b) == ~RLt(b, a)

RAbs(a) == <<Abs(a[1]), a[2]>>

RMin(a, b) == IF RLe(a, b) THEN a ELSE b

RMax(a, b) == IF RLe(b, a) THEN a ELSE b

\* Python int(x): truncation toward zero.
IntTrunc(a) == IF a[1] >= 0 THEN a[1] \div a[2] ELSE -((-a[1]) \div a[2])

\* Python truthiness of a float-or-None value.
Truthy(a) == a # None /\ a[1] # 0

RatSeq(s) == [i \in DOMAIN s |-> RInt(s[i])]

\* s[-n:] of Python.
LastN(s, n) == IF Len(s) <= n THEN s ELSE SubSeq(s, Len(s) - n + 1, Len(s))

RECURSIVE SumSeq(_)
SumSeq(s) == IF s = <<>> THEN 0 ELSE Head(s) + SumSeq(Tail(s))

RECURSIVE MaxSeq(_)
MaxSeq(s) == IF Len(s) = 1 THEN s[1] ELSE Max(Head(s), MaxSeq(Tail(s)))

RECURSIVE MinSeq(_)
MinSeq(s) == IF Len(s) = 1 THEN s[1] ELSE Min(Head(s), MinSeq(Tail(s)))

\* statistics.mean of a non-empty sequence of integers.
Mean(s) == Rat(SumSeq(s), Len(s))

(***************************************************************************)
(* monitor_bybit_flask.py: configuration.                                  *)
(***************************************************************************)
\* Hours: COOLDOWN_SECONDS = 7200.
COOLDOWN_SECONDS == 2
\* Hours: the heartbeat period 3600 of monitor_loop.
HEARTBEAT_PERIOD == 1
REPORT_4H_INTERVAL_SEC == 4
REPORT_DAILY_INTERVAL_SEC == 24
REPORT_WEEKLY_INTERVAL_SEC == 168
VOLUME_SPIKE_MULTIPLIER == 100
VOLUME_SPIKE_MIN_VOLUME == 500000
VOLUME_MIN_USD == 1000000
REPORT_MAX_ITEMS == 2
REPORT_SCORE_MIN == 70

(***************************************************************************)
(* monitor_bybit_flask.py: indicators.                                     *)
(***************************************************************************)
\* ema = price * k + ema * (1 - k)
EmaStep(price, ema, k) == RAdd(RMul(price, k), RMul(ema, RSub(RInt(1), k)))

\* "for p in prices[1:]", from index i on; each value is computed before the
\* loop goes on.
RECURSIVE EmaLoop(_, _, _, _)
EmaLoop(prices, i, ema, k) ==
    IF i > Len(prices) THEN ema
    ELSE LET e == EmaStep(prices[i], ema, k)
         IN  IF e[2] > 0 THEN EmaLoop(prices, i + 1, e, k) ELSE None

\* prices: a sequence of rationals.
compute_ema(prices, period) ==
    IF Len(prices) < 2 THEN None
    ELSE EmaLoop(prices, 2, prices[1], Rat(2, period + 1))

\* gains/losses of the whole series, as the code builds them.
Gains(prices) == [i \in 1..(Len(prices) - 1) |-> Max(prices[i + 1] - prices[i], 0)]

Losses(prices) == [i \in 1..(Len(prices) - 1) |-> Max(-(prices[i + 1] - prices[i]), 0)]

\* Faulty variant: the relative strength itself, as a percentage.
RsiUnbounded(avg_gain, avg_loss) ==
    IF avg_loss[1] = 0 THEN RInt(100) ELSE RMul(RInt(100), RDiv(avg_gain, avg_loss))

\* rsi = 100 - 100 / (1 + rs), rs = avg_gain / avg_loss
RsiOf(avg_gain, avg_loss) ==
    IF avg_loss[1] = 0 THEN RInt(100)
    ELSE RSub(RInt(100), RDiv(RInt(100), RAdd(RInt(1), RDiv(avg_gain, avg_loss))))

\* prices: a sequence of integers.
compute_rsi(prices, period) ==
    IF Len(prices) < period + 1 THEN None
    ELSE RsiOf(Rat(SumSeq(LastN(Gains(prices), period)), period),
               Rat(SumSeq(LastN(Losses(prices), period)), period))

\* macd_series.append(ef - es) when both exist.
MacdEntry(ef, es) == IF ef = None \/ es = None THEN <<>> ELSE <<RSub(ef, es)>>

RECURSIVE MacdSeries(_, _, _, _)
MacdSeries(prices, i, fast, slow) ==
    IF i > Len(prices) THEN <<>>
    ELSE MacdEntry(compute_ema(SubSeq(prices, 1, i), fast),
                   compute_ema(SubSeq(prices, 1, i), slow))
         \o MacdSeries(prices, i + 1, fast, slow)

\* signal_line of compute_macd.
SignalLine(macd_series, signal) ==
    IF Len(macd_series) >= signal THEN compute_ema(macd_series, signal) ELSE None

MacdOf(ema_fast, ema_slow, signal_line) ==
    IF ema_fast = None \/ ema_slow = None THEN <<None, None>>
    ELSE <<RSub(ema_fast, ema_slow), signal_line>>

\* prices: a sequence of rationals.  Returns <<macd, signal_line>>.
compute_macd(prices, fast, slow, signal) ==
    IF Len(prices) < slow THEN <<None, None>>
    ELSE MacdOf(compute_ema(prices, fast), compute_ema(prices, slow),
                SignalLine(MacdSeries(prices, slow, fast, slow), signal))

\* The volume ratio of estimate_volatility_tier.  The tier itself (a
\* standard deviation of logarithms) only decorates report messages and is
\* not represented.
estimate_volatility_tier(closes, volumes) ==
    IF Len(volumes) >= 6
    THEN LET baseline == Mean(SubSeq(volumes, Len(volumes) - 5, Len(volumes) - 1))
             last_vol == volumes[Len(volumes)]
         IN  IF baseline[1] # 0 THEN RDiv(RInt(last_vol), baseline) ELSE RInt(1)
    ELSE RInt(1)

\* Faulty variant: the newest close is part of the range it is compared with.
BreakoutWithLatest(closes, lookback) ==
    IF Len(closes) < lookback + 1 THEN <<0, None>>
    ELSE LET recent == SubSeq(closes, Len(closes) - lookback, Len(closes))
             last == closes[Len(closes)]
             hi == MaxSeq(recent)
             lo == MinSeq(recent)
         IN  IF last > hi THEN <<20, <<"Breakout sopra max", RInt(hi)>>>>
             ELSE IF last < lo THEN <<-10, <<"Rotto min", RInt(lo)>>>>
             ELSE <<0, None>>

\* Returns <<score, reason>>; the reason carries the level that was broken.
breakout_score(closes, lookback) ==
    IF Len(closes) < lookback + 1 THEN <<0, None>>
    ELSE LET recent == SubSeq(closes, Len(closes) - lookback, Len(closes) - 1)
             last == closes[Len(closes)]
             hi == MaxSeq(recent)
             lo == MinSeq(recent)
         IN  IF last > hi THEN <<20, <<"Breakout sopra max", RInt(hi)>>>>
             ELSE IF last < lo THEN <<-10, <<"Rotto min", RInt(lo)>>>>
             ELSE <<0, None>>

\* Returns <<spike, ratio>>.
detect_volume_spike(volumes, multiplier) ==
    IF Len(volumes) < 6 THEN <<FALSE, RInt(1)>>
    ELSE LET avg_prev == Mean(SubSeq(volumes, Len(volumes) - 5, Len(volumes) - 1))
             last == volumes[Len(volumes)]
         IN  IF avg_prev[1] <= 0 THEN <<FALSE, RInt(1)>>
             ELSE LET ratio == RDiv(RInt(last), avg_prev)
                  IN  <<RLe(RInt(multiplier), ratio), ratio>>


\* The steps of score_signals on s = <<score, reasons>>; each reason is
\* <<text, value>>.
\* EMA10 against EMA30.
ScoreEmaDiff(s, diff_pct) ==
    IF RLt(Rat(8, 10), diff_pct)
    THEN <<RAdd(s[1], RInt(20)), Append(s[2], <<"EMA10>EMA30", diff_pct>>)>>
    ELSE IF RLt(diff_pct, Rat(-8, 10))
    THEN <<RSub(s[1], RInt(15)), Append(s[2], <<"EMA10<EMA30", diff_pct>>)>>
    ELSE s

ScoreEma(s, ema10, ema30) ==
    IF Truthy(ema10) /\ Truthy(ema30)
    THEN ScoreEmaDiff(s, RMul(RDiv(RSub(ema10, ema30), ema30), RInt(100)))
    ELSE s

\* MACD against its signal; md = <<macd, signal>>.
ScoreMacd(s, md) ==
    IF md[1] # None /\ md[2] # None
    THEN IF RLt(md[2], md[1])
         THEN <<RAdd(s[1], RInt(15)), Append(s[2], <<"MACD bullish", None>>)>>
         ELSE <<RSub(s[1], RInt(7)), Append(s[2], <<"MACD bearish", None>>)>>
    ELSE s

\* Faulty variant: an RSI that is not available counts as an RSI of 0.
ScoreRsiMissingAsZero(s, rsi) ==
    IF rsi = None \/ RLt(rsi, RInt(35))
    THEN <<RAdd(s[1], RInt(10)), Append(s[2], <<"RSI (oversold)", rsi>>)>>
    ELSE IF RLt(RInt(70), rsi)
    THEN <<RSub(s[1], RInt(15)), Append(s[2], <<"RSI (overbought)", rsi>>)>>
    ELSE s

\* RSI below 35 or above 70.
ScoreRsi(s, rsi) ==
    IF rsi # None /\ RLt(rsi, RInt(35))
    THEN <<RAdd(s[1], RInt(10)), Append(s[2], <<"RSI (oversold)", rsi>>)>>
    ELSE IF rsi # None /\ RLt(RInt(70), rsi)
    THEN <<RSub(s[1], RInt(15)), Append(s[2], <<"RSI (overbought)", rsi>>)>>
    ELSE s

\* bo = breakout_score(prices): <<points, reason or None>>.
ScoreBreakout(s, bo) ==
    <<RAdd(s[1], RInt(bo[1])), IF bo[2] # None THEN Append(s[2], bo[2]) ELSE s[2]>>

\* mag = min(25, abs(variation)), weighted 0.6 upwards and 0.4 downwards.
ScoreVariation(s, variation) ==
    LET mag == RMin(RInt(25), RAbs(variation))
    IN  IF variation[1] > 0
        THEN <<RAdd(s[1], RMul(mag, Rat(6, 10))), s[2]>>
        ELSE <<RSub(s[1], RMul(mag, Rat(4, 10))), s[2]>>

\* The volume ratio of estimate_volatility_tier.
ScoreVolume(s, vol_ratio) ==
    IF Truthy(vol_ratio) /\ RLe(RInt(VOLUME_SPIKE_MULTIPLIER), vol_ratio)
    THEN <<RAdd(s[1], RInt(25)), Append(s[2], <<"Vol spike", vol_ratio>>)>>
    ELSE IF Truthy(vol_ratio) /\ RLe(RInt(5), vol_ratio)
    THEN <<RAdd(s[1], RInt(5)), Append(s[2], <<"Vol ratio", vol_ratio>>)>>
    ELSE s

\* Step k of score_signals, in the order of the code.
ScoreStep(s, k, prices, volumes, variation) ==
    CASE k = 1 -> ScoreEma(s, compute_ema(RatSeq(prices), 10),
                           compute_ema(RatSeq(prices), 30))
      [] k = 2 -> ScoreMacd(s, compute_macd(RatSeq(prices), 12, 26, 9))
      [] k = 3 -> ScoreRsi(s, compute_rsi(prices, 14))
      [] k = 4 -> ScoreBreakout(s, breakout_score(prices, 20))
      [] k = 5 -> ScoreVariation(s, variation)
      [] k = 6 -> ScoreVolume(s, estimate_volatility_tier(prices, volumes))

\* The steps from k on, each computed before the next.
RECURSIVE ScoreSteps(_, _, _, _, _)
ScoreSteps(s, k, prices, volumes, variation) ==
    IF k > 6 THEN s
    ELSE LET n == ScoreStep(s, k, prices, volumes, variation)
         IN  IF n[1][2] > 0 THEN ScoreSteps(n, k + 1, prices, volumes, variation)
             ELSE None

\* The additive part of score_signals: <<score, reasons>> before the clamp.
\* prices and volumes are sequences of integers, variation is a rational.
score_sum(prices, volumes, variation, tf) ==
    ScoreSteps(<<RInt(0), <<>>>>, 1, prices, volumes, variation)

\* raw = max(-100, min(100, score))
ClampRaw(score) == RMax(RInt(-100), RMin(RInt(100), score))

\* Faulty variant: the remap without its shift.
NormalizeNoShift(raw) == IntTrunc(RDiv(raw, RInt(2)))

\* normalized = int((raw + 100) / 2)
Normalize(raw) == IntTrunc(RDiv(RAdd(raw, RInt(100)), RInt(2)))

\* s = <<score, reasons>> of score_sum: the clamp and the remap.
Normalized(s) == <<Normalize(ClampRaw(s[1])), s[2]>>

\* Returns <<normalized, reasons>>.
score_signals(prices, volumes, variation, tf) ==
    Normalized(score_sum(prices, volumes, variation, tf))


(***************************************************************************)
(* Market data.  A fetch returns one of a few candle series (oldest to     *)
(* newest), or fails.  Every series has CandleLen candles: a constant      *)
(* history followed by the newest candle.                                  *)
(***************************************************************************)
Series(c, p, v, w) ==
    [closes |-> [i \in 1..CandleLen |-> IF i < CandleLen THEN c ELSE p],
     vols   |-> [i \in 1..CandleLen |-> IF i < CandleLen THEN v ELSE w]]

Candles ==
    [flat      |-> Series(100, 100, 10000, 10000),
     jump      |-> Series(100, 112, 10000, 10000),
     spike     |-> Series(100, 100, 10000, 1500000),
     weakspike |-> Series(100, 100, 10, 1500),
     jumpspike |-> Series(100, 112, 10000, 1500000)]

CandleNames == DOMAIN Candles

\* What safe_fetch_ohlcv can return: "fail" stands for (None, None).
Fetches == CandleNames \cup {"fail"}

LastOf(s) == s[Len(s)]

PriceSet == {LastOf(Candles[c].closes) : c \in CandleNames}

(***************************************************************************)
(* Dictionaries: functions whose domain is the set of keys present.        *)
(***************************************************************************)
EmptyDict == <<>>

Put(m, k, v) == [x \in DOMAIN m \cup {k} |-> IF x = k THEN v ELSE m[x]]

Get(m, k, default) == IF k \in DOMAIN m THEN m[k] ELSE default


(***************************************************************************)
(* State.                                                                  *)
(***************************************************************************)
VARIABLES
    prog,                   \* which script this run executes
    config,                 \* the environment-driven configuration of the run
    now,                    \* the wall clock, time.time()
    inp,                    \* what the last step fetched from the exchange
    sink,                   \* the messages the last step handed to Telegram
    pos,                    \* position of the monitor loop in its cycle
    last_prices,            \* flask: key -> price; crypto: symbol -> windows
    last_alert_time,        \* flask: key -> time of the last alert
    last_volume_alert_time, \* flask: symbol -> time of the last volume alert
    first,                  \* flask: monitor_loop's first-cycle flag
    last_hb,                \* flask: monitor_loop's heartbeat timer
    last_r4,                \* flask: monitor_loop's 4h report timer
    last_daily,             \* flask: monitor_loop's daily report timer
    last_weekly,            \* flask: monitor_loop's weekly report timer
    threads,                \* flask: report threads started and not yet run
    previous_prices,        \* service, all: key -> last price seen
    cycle,                  \* service: cycle; all: cycle_count
    symbols_list,           \* service: symbols_list; all: all_symbols
    last_markets_check,     \* service: monitor_loop's refresh timer
    ret,                    \* service: what analyze_symbol_tf returned last
    last_alerts,            \* crypto: symbol -> alert type -> time
    last_volumes,           \* crypto: symbol -> rolling volumes and last volume
    kline_cache,            \* crypto: symbol -> last candles fetched
    backoff,                \* crypto: monitor_loop's backoff
    hist,                   \* history: key -> times of the last dispatches
    gap,                    \* history: time since the previous dispatch
    pc,                     \* threads: thread -> label of its next statement
    lock                    \* threads: the holder of _state_lock, or "free"

vars ==
    <<prog, config, now, inp, sink, pos, last_prices, last_alert_time,
      last_volume_alert_time, first, last_hb, last_r4, last_daily,
      last_weekly, threads, previous_prices, cycle, symbols_list,
      last_markets_check, ret, last_alerts, last_volumes, kline_cache,
      backoff, hist, gap, pc, lock>>

flaskLoopVars == <<first, last_hb, last_r4, last_daily, last_weekly, threads>>

flaskAlertVars == <<last_alert_time, last_volume_alert_time>>

flaskVars == <<last_prices, flaskAlertVars, flaskLoopVars>>

loopVars == <<cycle, symbols_list, last_markets_check>>

svcVars == <<previous_prices, loopVars, ret>>

cryptoVars == <<last_alerts, last_volumes, kline_cache, backoff>>

histVars == <<hist, gap>>

threadVars == <<pc, lock>>

\* The clock starts at an epoch that exceeds every interval of the code.
StartTime == REPORT_WEEKLY_INTERVAL_SEC

MaxTime == StartTime + Horizon

\* Hours of the run that follows the report threads: long enough for the
\* 4h report to come due a second time.
ReportHorizon == 5

\* Hours of the run in which report threads run beside the monitor loop.
ConcurrentHorizon == 2

\* The last instant of the run the configuration selects.
RunEnd(cfg) ==
    IF "run" \in DOMAIN cfg /\ cfg.run = "reports"
    THEN StartTime + ReportHorizon
    ELSE IF "run" \in DOMAIN cfg /\ cfg.run = "concurrent"
    THEN StartTime + ConcurrentHorizon
    ELSE MaxTime

(***************************************************************************)
(* monitor_bybit_flask.py: monitor_loop.                                   *)
(***************************************************************************)
\* get_bybit_derivative_symbols(): the sorted symbols of the exchange.
FlaskSymbols == <<"BTC/USDT">>

FAST_TFS == <<"1m", "3m">>

\* The (symbol, timeframe) pairs in the order the loop visits them.
FlaskKeys ==
    [i \in 1..(Len(FlaskSymbols) * Len(FAST_TFS)) |->
        <<FlaskSymbols[((i - 1) \div Len(FAST_TFS)) + 1],
          FAST_TFS[((i - 1) % Len(FAST_TFS)) + 1]>>]

\* "/USDT" in s or s.endswith(":USDT")
IsUsdt(s) == s \in {"BTC/USDT", "ETH/USDT", "SOL/USDT"}

\* The THRESHOLDS dictionaries a run may be configured with (percent): the
\* defaults for 1m and 1h, and THRESH_3M=0 from the environment.
ThresholdConfigs ==
    { [x \in {"1m", "3m", "1h"} |-> IF x = "1m" THEN Rat(75, 10)
                                   ELSE IF x = "3m" THEN RInt(0)
                                   ELSE RInt(17)] }

\* What one fetch of the alert loop can return.
FlaskFetches == {"flat", "jump", "spike", "jumpspike", "fail"}

\* The fetches of a run that looks at volumes only: the price stays flat.
VolumeFetches == {"flat", "spike", "weakspike", "fail"}

\* The fetches of the long run that follows the report threads.
ReportFetches == {"flat", "jump"}

\* What one fetch can return in the run the configuration selects.
FlaskAnswers(cfg) ==
    IF "run" \notin DOMAIN cfg THEN FlaskFetches
    ELSE IF cfg.run = "volume" THEN VolumeFetches
    ELSE ReportFetches

\* Faulty variant: the baseline is read after it was overwritten.
VariationOfSelf(price, prev) ==
    IF price # 0 THEN Rat((price - price) * 100, price) ELSE RInt(0)

\* ((price - prev) / prev) * 100 if prev else 0.0
Variation(price, prev) ==
    IF prev # 0 THEN Rat((price - prev) * 100, prev) ELSE RInt(0)

\* Faulty variant: a price move is taken to be pending whatever the candles.
AlertPriceMovePending(variation, threshold) == TRUE

\* abs(variation) >= threshold
AlertPriceMove(variation, threshold) == RLe(threshold, RAbs(variation))

\* vol_spike and (usd_volume >= VOLUME_MIN_USD or vols[-1] >= VOLUME_SPIKE_MIN_VOLUME)
AlertVolume(s, price, vols) ==
    LET vol_spike == detect_volume_spike(vols, VOLUME_SPIKE_MULTIPLIER)[1]
        usd_volume == IF IsUsdt(s) THEN price * LastOf(vols) ELSE 0
    IN  vol_spike /\ (usd_volume >= VOLUME_MIN_USD
                      \/ LastOf(vols) >= VOLUME_SPIKE_MIN_VOLUME)

\* Faulty variants of the cooldown test, for sensitivity analysis: no test at
\* all, and a strict comparison.
CooldownAlways(now_ts, last_ts) == TRUE

CooldownStrict(now_ts, last_ts) == now_ts - last_ts > COOLDOWN_SECONDS

\* now_ts - last_ts >= COOLDOWN_SECONDS
CooldownElapsed(now_ts, last_ts) == now_ts - last_ts >= COOLDOWN_SECONDS

\* score_signals of every series against every baseline, computed once.
AlertScore ==
    [c \in CandleNames |-> [prev \in PriceSet |->
        score_signals(Candles[c].closes, Candles[c].vols,
                      Variation(LastOf(Candles[c].closes), prev), "")]]

\* The text of an alert, as the values it is formatted from.
AlertText(key, c, prev, alert_volume, now_ts, ok) ==
    [kind      |-> "alert",
     key       |-> key,
     variation |-> Variation(LastOf(Candles[c].closes), prev),
     price     |-> LastOf(Candles[c].closes),
     score     |-> AlertScore[c][prev][1],
     volume    |-> alert_volume,
     vol_ratio |-> detect_volume_spike(Candles[c].vols, VOLUME_SPIKE_MULTIPLIER)[2],
     reasons   |-> AlertScore[c][prev][2],
     ts        |-> now_ts,
     sent      |-> ok]

\* closes, vols = safe_fetch_ohlcv(s, tf, limit=120): None for a failed fetch.

\* Faulty variant: a failed fetch answers with candles instead of nothing.
FetchOrGuess(f) ==
    IF f = "fail" THEN <<Candles["jump"].closes, Candles["jump"].vols>>
    ELSE <<Candles[f].closes, Candles[f].vols>>

safe_fetch_ohlcv(f) ==
    IF f = "fail" THEN <<None, None>> ELSE <<Candles[f].closes, Candles[f].vols>>

\* Faulty variant: no seeding branch.
NeverSeeding(is_first, key, prices) == FALSE

\* first or key not in last_prices
IsSeeding(is_first, key, prices) == is_first \/ key \notin DOMAIN prices

\* Faulty variant: a failed fetch forgets the baseline of the key.
FlaskPricesForget(prices, key, closes) ==
    IF closes = None THEN [k \in DOMAIN prices \ {key} |-> prices[k]]
    ELSE Put(prices, key, LastOf(closes))

\* Faulty variant: the baseline of a key is written once and then kept.
FlaskPricesSeedOnly(prices, key, closes) ==
    IF closes = None \/ key \in DOMAIN prices THEN prices
    ELSE Put(prices, key, LastOf(closes))

\* last_prices after one pass of the body: untouched by "if not closes:
\* continue", the newest close otherwise (seeding or the final assignment).
FlaskPrices(prices, key, closes) ==
    IF closes = None THEN prices ELSE Put(prices, key, LastOf(closes))

\* Faulty variant: the cooldown is armed only by a send that succeeded.
RecordAlertIfSent(times, key, now_ts, ok) ==
    IF ok THEN Put(times, key, now_ts) ELSE times

\* Faulty variant: a dispatch restarts the cooldown of every key that has one.
RecordAlertAll(times, key, now_ts, ok) ==
    [k \in DOMAIN times \cup {key} |-> now_ts]

\* send_telegram_text(text) returned (it swallows every failure and returns
\* nothing); last_alert_time[key] = now_ts
RecordAlert(times, key, now_ts, ok) == Put(times, key, now_ts)

\* History of what reached Telegram: per key, the time of the last dispatched
\* alert that reported a price move and of the last that reported a volume
\* spike (0: never), and what became of alert conditions since the last
\* dispatched alert: "none"; "dropped", a condition held and nothing was
\* sent; "lapsed", after a dropped condition an evaluation outside the
\* cooldown, whose candles met no condition, sent nothing.
NoDispatch == [move |-> 0, volume |-> 0, dropped |-> "none"]

LastDispatch(h, key) == Max(Get(h, key, NoDispatch).move, Get(h, key, NoDispatch).volume)

\* What one pass of the loop body does for its key: "skipped" (no candles),
\* "seeded", "quiet" (no alert condition), "suppressed" (a condition inside
\* the cooldown) or "sent".
Outcome(is_first, key, prices, closes, vols, threshold, now_ts, times) ==
    IF closes = None THEN "skipped"
    ELSE IF IsSeeding(is_first, key, prices) THEN "seeded"
    ELSE IF ~(\/ AlertPriceMove(Variation(LastOf(closes),
                                        Get(prices, key, LastOf(closes))),
                              threshold)
              \/ AlertVolume(key[1], LastOf(closes), vols))
    THEN "quiet"
    ELSE IF CooldownElapsed(now_ts, Get(times, key, 0)) THEN "sent"
    ELSE "suppressed"

ObservedHist(h, key, msgs, threshold, t, outcome, cooled) ==
    IF msgs = <<>>
    THEN IF outcome = "suppressed"
         THEN Put(h, key, [Get(h, key, NoDispatch) EXCEPT !.dropped = "dropped"])
         ELSE IF outcome = "quiet" /\ cooled /\ Get(h, key, NoDispatch).dropped = "dropped"
         THEN Put(h, key, [Get(h, key, NoDispatch) EXCEPT !.dropped = "lapsed"])
         ELSE h
    ELSE LET old == Get(h, key, NoDispatch)
             m == msgs[1]
         IN  Put(h, key,
                 [move    |-> IF RLe(threshold, RAbs(m.variation)) THEN t ELSE old.move,
                  volume  |-> IF m.volume THEN t ELSE old.volume,
                  dropped |-> "none"])

\* Time since the previous dispatch for the key of this dispatch (-1: none).
ObservedGap(h, key, msgs, t) ==
    IF msgs = <<>> \/ LastDispatch(h, key) = 0 THEN -1 ELSE t - LastDispatch(h, key)

\* One pass of the body of "for tf in FAST_TFS" for the key at pos.
FlaskEvaluate ==
    /\ prog = "flask"
    /\ pos \in 1..Len(FlaskKeys)
    /\ LET key == FlaskKeys[pos]
           s == key[1]
           tf == key[2]
           threshold == Get(config.THRESHOLDS, tf, RInt(5))
       IN  \E f \in FlaskAnswers(config) :
             LET closes == safe_fetch_ohlcv(f)[1]
                 vols == safe_fetch_ohlcv(f)[2]
             IN  /\ inp' = f
                 /\ pos' = pos + 1
                 /\ last_prices' = FlaskPrices(last_prices, key, closes)
                 /\ IF closes = None
                    THEN /\ sink' = <<>>
                         /\ UNCHANGED flaskAlertVars
                    ELSE LET price == LastOf(closes)
                         IN  IF IsSeeding(first, key, last_prices)
                             THEN /\ sink' = <<>>
                                  /\ UNCHANGED flaskAlertVars
                             ELSE LET prev == Get(last_prices, key, price)
                                      variation == Variation(price, prev)
                                      alert_price_move == AlertPriceMove(variation, threshold)
                                      alert_volume == AlertVolume(s, price, vols)
                                      now_ts == now
                                      last_ts == Get(last_alert_time, key, 0)
                                  IN  IF (alert_price_move \/ alert_volume)
                                         /\ CooldownElapsed(now_ts, last_ts)
                                      THEN \E ok \in BOOLEAN :
                                             /\ sink' = <<AlertText(key, f, prev, alert_volume, now_ts, ok)>>
                                             /\ last_alert_time' = RecordAlert(last_alert_time, key, now_ts, ok)
                                             /\ last_volume_alert_time' =
                                                  IF alert_volume
                                                  THEN Put(last_volume_alert_time, s, now_ts)
                                                  ELSE last_volume_alert_time
                                      ELSE /\ sink' = <<>>
                                           /\ UNCHANGED flaskAlertVars
                 /\ hist' = ObservedHist(hist, key, sink', threshold, now,
                                          Outcome(first, key, last_prices, closes, vols,
                                                  threshold, now, last_alert_time),
                                          now - Get(last_alert_time, key, 0) >= COOLDOWN_SECONDS)
                 /\ gap' = ObservedGap(hist, key, sink', now)
    /\ UNCHANGED <<prog, config, threadVars, now, flaskLoopVars, svcVars, cryptoVars>>

\* The report kinds monitor_loop starts: <<tf_label, tf>>.
Report4h == <<"4h", "4h">>

ReportDaily == <<"DAILY", "1d">>

ReportWeekly == <<"WEEKLY", "1w">>

\* Faulty variant: a report is started at the end of every cycle.
DueEveryCycle(t, last, interval) == t - last >= 0

\* t - last >= interval
Due(t, last, interval) == t - last >= interval

\* The end of one pass of "while True": first = False, heartbeat, reports.
FlaskEndCycle ==
    /\ prog = "flask"
    /\ pos = Len(FlaskKeys) + 1
    /\ LET t == now
           launched == (IF Due(t, last_r4, REPORT_4H_INTERVAL_SEC) THEN {Report4h} ELSE {})
                       \cup (IF Due(t, last_daily, REPORT_DAILY_INTERVAL_SEC) THEN {ReportDaily} ELSE {})
                       \cup (IF Due(t, last_weekly, REPORT_WEEKLY_INTERVAL_SEC) THEN {ReportWeekly} ELSE {})
       IN  /\ first' = FALSE
           /\ IF Due(t, last_hb, HEARTBEAT_PERIOD)
              THEN sink' = <<[kind |-> "heartbeat", ts |-> t]>> /\ last_hb' = t
              ELSE sink' = <<>> /\ last_hb' = last_hb
           /\ last_r4' = IF Report4h \in launched THEN t ELSE last_r4
           /\ last_daily' = IF ReportDaily \in launched THEN t ELSE last_daily
           /\ last_weekly' = IF ReportWeekly \in launched THEN t ELSE last_weekly
           /\ threads' = threads \cup launched
    /\ pos' = 1
    /\ inp' = "none"
    /\ gap' = -1
    /\ UNCHANGED <<prog, config, threadVars, now, last_prices, flaskAlertVars, svcVars, hist, cryptoVars>>

\* Time passes (fetch latency, the sleep that ends a cycle).
Tick ==
    /\ prog \in {"flask", "service", "all"}
    /\ now < RunEnd(config)
    /\ now' = now + 1
    /\ UNCHANGED <<prog, config, threadVars, inp, sink, pos, flaskVars, svcVars, histVars, cryptoVars>>

\* The variables of the other scripts, which a run of this one never touches.
SvcIdle ==
    /\ previous_prices = EmptyDict
    /\ cycle = 0
    /\ symbols_list = <<>>
    /\ last_markets_check = 0
    /\ ret = None

\* The crypto script's globals as the module leaves them (lines 54-57, 529).
CryptoIdle ==
    /\ last_alerts = EmptyDict
    /\ last_volumes = EmptyDict
    /\ kline_cache = EmptyDict
    /\ backoff = 1

HistIdle ==
    /\ hist = EmptyDict
    /\ gap = -1

\* The scripts whose steps are whole handlers keep no thread positions.
ThreadsIdle ==
    /\ pc = EmptyDict
    /\ lock = "free"

FlaskIdle ==
    /\ last_prices = EmptyDict
    /\ last_alert_time = EmptyDict
    /\ last_volume_alert_time = EmptyDict
    /\ first = TRUE
    /\ last_hb = 0
    /\ last_r4 = 0
    /\ last_daily = 0
    /\ last_weekly = 0
    /\ threads = {}

InitFlask ==
    /\ prog = "flask"
    /\ config \in {[THRESHOLDS |-> t] : t \in ThresholdConfigs}
    /\ now = StartTime
    /\ inp = "none"
    /\ sink = <<>>
    /\ pos = 1
    /\ last_prices = EmptyDict
    /\ last_alert_time = EmptyDict
    /\ last_volume_alert_time = EmptyDict
    /\ first = TRUE
    /\ last_hb = 0
    /\ last_r4 = 0
    /\ last_daily = 0
    /\ last_weekly = 0
    /\ threads = {}
    /\ SvcIdle
    /\ HistIdle
    /\ ThreadsIdle
    /\ CryptoIdle

NextFlask == FlaskEvaluate \/ FlaskEndCycle \/ Tick

SpecFlask == InitFlask /\ [][NextFlask]_vars

\* The run with flat prices and volume spikes of both sizes.
InitFlaskVolume ==
    /\ prog = "flask"
    /\ config \in {[THRESHOLDS |-> t, run |-> "volume"] : t \in ThresholdConfigs}
    /\ now = StartTime
    /\ inp = "none"
    /\ sink = <<>>
    /\ pos = 1
    /\ last_prices = EmptyDict
    /\ last_alert_time = EmptyDict
    /\ last_volume_alert_time = EmptyDict
    /\ first = TRUE
    /\ last_hb = 0
    /\ last_r4 = 0
    /\ last_daily = 0
    /\ last_weekly = 0
    /\ threads = {}
    /\ SvcIdle
    /\ HistIdle
    /\ ThreadsIdle
    /\ CryptoIdle

SpecFlaskVolume == InitFlaskVolume /\ [][NextFlask]_vars

\* The flask script followed for ReportHorizon hours.
InitFlaskReports ==
    /\ prog = "flask"
    /\ config \in {[THRESHOLDS |-> t, run |-> "reports"] : t \in ThresholdConfigs}
    /\ now = StartTime
    /\ inp = "none"
    /\ sink = <<>>
    /\ pos = 1
    /\ last_prices = EmptyDict
    /\ last_alert_time = EmptyDict
    /\ last_volume_alert_time = EmptyDict
    /\ first = TRUE
    /\ last_hb = 0
    /\ last_r4 = 0
    /\ last_daily = 0
    /\ last_weekly = 0
    /\ threads = {}
    /\ SvcIdle
    /\ HistIdle
    /\ ThreadsIdle
    /\ CryptoIdle

SpecFlaskReports == InitFlaskReports /\ [][NextFlask]_vars


(***************************************************************************)
(* monitor_service.py: monitor_loop and analyze_symbol_tf.                 *)
(* The clock of this script counts hours too (REFRESH_MARKETS_EVERY =      *)
(* 3600); LOOP_DELAY and HEARTBEAT_INTERVAL_SEC are in seconds and are     *)
(* only used in the cycle arithmetic of the slow timeframes.               *)
(***************************************************************************)
SVC_LOOP_DELAY == 10
SVC_HEARTBEAT_INTERVAL_SEC == 20
REFRESH_MARKETS_EVERY == 1
SVC_FAST_TFS == <<"1m">>
SVC_SLOW_TFS == <<"1h">>
\* Cycles of the service and all loops that are explored.
MaxCycle == 3

\* What exchange.load_markets() lists.
Markets == <<"BTC/USDT">>

\* What fetch_last_price / fetch_price can return: the close of the newest
\* candle of a quote, or None ("fail").
Quotes == [q100 |-> 100, q103 |-> 103, q112 |-> 112]

SvcFetches == DOMAIN Quotes \cup {"fail"}

\* The configurations of FAST_THRESHOLD and SLOW_THRESHOLD (percent).
SvcConfigs ==
    {[FAST_THRESHOLD |-> RInt(f), SLOW_THRESHOLD |-> RInt(3)] : f \in {0, 5}}

RECURSIVE Flatten(_)
Flatten(ss) == IF ss = <<>> THEN <<>> ELSE Head(ss) \o Flatten(Tail(ss))

\* The calls of analyze_symbol_tf one cycle makes, in order:
\* <<symbol, timeframe, threshold>>.
ServiceTasks(syms, c, cfg) ==
    Flatten([i \in 1..Len(syms) |->
        [j \in 1..Len(SVC_FAST_TFS) |-> <<syms[i], SVC_FAST_TFS[j], cfg.FAST_THRESHOLD>>]
        \o (IF SVC_HEARTBEAT_INTERVAL_SEC # 0
               /\ (c * SVC_LOOP_DELAY) % SVC_HEARTBEAT_INTERVAL_SEC = 0
            THEN [j \in 1..Len(SVC_SLOW_TFS) |-> <<syms[i], SVC_SLOW_TFS[j], cfg.SLOW_THRESHOLD>>]
            ELSE <<>>)])

\* Faulty variant: the price as a percentage of the baseline.
ServiceRatio(price, old) == IF old = 0 THEN RInt(0) ELSE Rat(price * 100, old)

\* pct of analyze_symbol_tf.
ServicePct(price, old) == IF old = 0 THEN RInt(0) ELSE Rat((price - old) * 100, old)

\* previous_prices after analyze_symbol_tf has fetched price for key.
ServiceBaseline(prices, key, price) == Put(prices, key, price)

\* The top of "while True": cycle += 1, the periodic refresh, the snapshot.
\* pos = 0 also stands for the refresh_symbols() call before the loop.
ServiceBeginCycle ==
    /\ prog = "service"
    /\ pos = 0
    /\ cycle < MaxCycle
    /\ cycle' = cycle + 1
    /\ IF cycle = 0 \/ now - last_markets_check > REFRESH_MARKETS_EVERY
       THEN /\ \E ok \in BOOLEAN :
                 symbols_list' = IF ok THEN Markets ELSE symbols_list
            /\ last_markets_check' = now
       ELSE UNCHANGED <<symbols_list, last_markets_check>>
    /\ pos' = 1
    /\ inp' = "none"
    /\ sink' = <<>>
    /\ UNCHANGED <<prog, config, threadVars, now, flaskVars, previous_prices, ret, histVars, cryptoVars>>

\* One call of analyze_symbol_tf(symbol, timeframe, threshold).
ServiceAnalyze ==
    /\ prog = "service"
    /\ pos \in 1..Len(ServiceTasks(symbols_list, cycle, config))
    /\ LET task == ServiceTasks(symbols_list, cycle, config)[pos]
           key == <<task[1], task[2]>>
           threshold == task[3]
       IN  \E f \in SvcFetches :
             /\ inp' = f
             /\ pos' = pos + 1
             /\ IF f = "fail"
                THEN /\ ret' = None
                     /\ sink' = <<>>
                     /\ UNCHANGED previous_prices
                ELSE LET price == Quotes[f]
                         old == Get(previous_prices, key, price)
                         pct == ServicePct(price, old)
                     IN  /\ previous_prices' = ServiceBaseline(previous_prices, key, price)
                         /\ IF RLe(threshold, RAbs(pct))
                            THEN \E ok \in BOOLEAN :
                                   /\ sink' = <<[kind |-> "alert", key |-> key,
                                                 variation |-> pct, price |-> price,
                                                 sent |-> ok]>>
                                   /\ ret' = [symbol |-> task[1], tf |-> task[2],
                                              pct |-> pct, sent |-> ok]
                            ELSE /\ sink' = <<>>
                                 /\ ret' = None
    /\ UNCHANGED <<prog, config, threadVars, now, flaskVars, loopVars, histVars, cryptoVars>>

\* The end of one pass: last_cycle_time, the sleep.
ServiceEndCycle ==
    /\ prog = "service"
    /\ pos = Len(ServiceTasks(symbols_list, cycle, config)) + 1
    /\ pos' = 0
    /\ inp' = "none"
    /\ sink' = <<>>
    /\ UNCHANGED <<prog, config, threadVars, now, flaskVars, svcVars, histVars, cryptoVars>>

InitService ==
    /\ prog = "service"
    /\ config \in SvcConfigs
    /\ now = StartTime
    /\ inp = "none"
    /\ sink = <<>>
    /\ pos = 0
    /\ FlaskIdle
    /\ SvcIdle
    /\ HistIdle
    /\ ThreadsIdle
    /\ CryptoIdle

NextService == ServiceBeginCycle \/ ServiceAnalyze \/ ServiceEndCycle \/ Tick

SpecService == InitService /\ [][NextService]_vars

(***************************************************************************)
(* monitor_bybit_all_1m_3m_1h.py: the main loop and analyze_variation.     *)
(***************************************************************************)
ALL_FAST_THRESHOLD == 5
ALL_SLOW_THRESHOLD == 3
ALL_HEARTBEAT_INTERVAL == 360
TIMEFRAMES_FAST == <<"1m", "3m">>
TIMEFRAMES_SLOW == <<"1h">>

\* The calls of analyze_variation one cycle makes, in order.
AllTasks(syms, c) ==
    Flatten([i \in 1..Len(syms) |->
        [j \in 1..Len(TIMEFRAMES_FAST) |-> <<syms[i], TIMEFRAMES_FAST[j], RInt(ALL_FAST_THRESHOLD)>>]
        \o (IF c % ALL_HEARTBEAT_INTERVAL = 0
            THEN [j \in 1..Len(TIMEFRAMES_SLOW) |-> <<syms[i], TIMEFRAMES_SLOW[j], RInt(ALL_SLOW_THRESHOLD)>>]
            ELSE <<>>)])

\* variation of analyze_variation (old_price is never 0: prices are positive).
AllVariation(price, old_price) == Rat((price - old_price) * 100, old_price)

\* previous_prices after analyze_variation has fetched price for key.
AllBaseline(prices, key, price) == Put(prices, key, price)

\* The top of "while True": cycle_count += 1.
AllBeginCycle ==
    /\ prog = "all"
    /\ pos = 0
    /\ cycle < MaxCycle
    /\ cycle' = cycle + 1
    /\ pos' = 1
    /\ inp' = "none"
    /\ sink' = <<>>
    /\ UNCHANGED <<prog, config, threadVars, now, flaskVars, previous_prices, symbols_list,
                   last_markets_check, ret, histVars, cryptoVars>>

\* One call of analyze_variation(symbol, timeframe, threshold).
AllAnalyze ==
    /\ prog = "all"
    /\ pos \in 1..Len(AllTasks(symbols_list, cycle))
    /\ LET task == AllTasks(symbols_list, cycle)[pos]
           key == <<task[1], task[2]>>
           threshold == task[3]
       IN  \E f \in SvcFetches :
             /\ inp' = f
             /\ pos' = pos + 1
             /\ IF f = "fail"
                THEN /\ sink' = <<>>
                     /\ UNCHANGED previous_prices
                ELSE LET price == Quotes[f]
                         old_price == Get(previous_prices, key, price)
                         variation == AllVariation(price, old_price)
                     IN  /\ IF RLe(threshold, RAbs(variation))
                            THEN \E ok \in BOOLEAN :
                                   sink' = <<[kind |-> "alert", key |-> key,
                                              variation |-> variation, price |-> price,
                                              sent |-> ok]>>
                            ELSE sink' = <<>>
                         /\ previous_prices' = AllBaseline(previous_prices, key, price)
    /\ UNCHANGED <<prog, config, threadVars, now, flaskVars, loopVars, ret, histVars, cryptoVars>>

\* The end of one pass: the hourly heartbeat, the sleep.
AllEndCycle ==
    /\ prog = "all"
    /\ pos = Len(AllTasks(symbols_list, cycle)) + 1
    /\ pos' = 0
    /\ inp' = "none"
    /\ sink' = IF cycle % ALL_HEARTBEAT_INTERVAL = 0
               THEN <<[kind |-> "heartbeat", ts |-> now]>> ELSE <<>>
    /\ UNCHANGED <<prog, config, threadVars, now, flaskVars, svcVars, histVars, cryptoVars>>

InitAll ==
    /\ prog = "all"
    /\ config = [none |-> 0]
    /\ now = StartTime
    /\ inp = "none"
    /\ sink = <<>>
    /\ pos = 0
    /\ FlaskIdle
    /\ previous_prices = EmptyDict
    /\ cycle = 0
    /\ symbols_list = Markets
    /\ last_markets_check = 0
    /\ ret = None
    /\ HistIdle
    /\ ThreadsIdle
    /\ CryptoIdle

NextAll == AllBeginCycle \/ AllAnalyze \/ AllEndCycle \/ Tick

SpecAll == InitAll /\ [][NextAll]_vars


(***************************************************************************)
(* score_signals as a function of its arguments (prog = "score"): the      *)
(* arguments are drawn in Init and one step applies the function.          *)
(***************************************************************************)
\* n candles: a constant history at 100 followed by tail.
Shape(n, tail) ==
    [i \in 1..n |-> IF i <= n - Len(tail) THEN 100 ELSE tail[i - (n - Len(tail))]]

\* n volumes: a constant history v followed by w.
VolShape(n, v, w) == [i \in 1..n |-> IF i < n THEN v ELSE w]

ScorePrices ==
    [empty   |-> <<>>,
     one     |-> <<100>>,
     short   |-> Shape(6, <<112>>),
     mid     |-> Shape(21, <<112>>),
     flat    |-> Shape(CandleLen, <<>>),
     jump    |-> Shape(CandleLen, <<112>>),
     drop    |-> Shape(CandleLen, <<88>>),
     rebound |-> Shape(CandleLen, <<97, 103>>)]

ScoreVolumes ==
    [few    |-> <<1, 2, 3>>,
     normal |-> VolShape(CandleLen, 10000, 10000),
     ratio6 |-> VolShape(CandleLen, 10000, 60000),
     spike  |-> VolShape(CandleLen, 10000, 1500000),
     zero   |-> VolShape(CandleLen, 0, 5)]

ScoreVariations == {RInt(-30), RInt(-12), RInt(0), Rat(1, 2), RInt(12), RInt(30)}

ScoreInputs ==
    [prices : DOMAIN ScorePrices, volumes : DOMAIN ScoreVolumes,
     variation : ScoreVariations, tf : {"1m"}]

\* One call score_signals(prices, volumes, variation, tf).
ScoreApply ==
    /\ prog = "score"
    /\ pos = 0
    /\ pos' = 1
    /\ ret' = score_signals(ScorePrices[config.prices], ScoreVolumes[config.volumes],
                            config.variation, config.tf)
    /\ UNCHANGED <<prog, config, threadVars, now, inp, sink, flaskVars, previous_prices,
                   loopVars, histVars, cryptoVars>>

InitScore ==
    /\ prog = "score"
    /\ config \in ScoreInputs
    /\ now = StartTime
    /\ inp = "none"
    /\ sink = <<>>
    /\ pos = 0
    /\ FlaskIdle
    /\ SvcIdle
    /\ HistIdle
    /\ ThreadsIdle
    /\ CryptoIdle

NextScore == ScoreApply

SpecScore == InitScore /\ [][NextScore]_vars

(***************************************************************************)
(* monitor_bybit_flask.py: build_and_send_wyckoff_report (prog =           *)
(* "report").  What the exchange answers for each symbol is drawn in Init  *)
(* (config.market) and one step runs the report.  The Wyckoff phase and    *)
(* the volatility tier only decorate the text and are not represented.     *)
(***************************************************************************)
ReportSymbols == <<"BTC/USDT", "ETH/USDT", "SOL/USDT">>

\* prev = closes[-2] if len(closes) > 1 else price
PrevClose(closes) == IF Len(closes) > 1 THEN closes[Len(closes) - 1] ELSE LastOf(closes)

\* var = ((price - prev) / prev) * 100 if prev else 0.0
ReportVar(price, prev) == IF prev # 0 THEN Rat((price - prev) * 100, prev) ELSE RInt(0)

\* What an item holds besides its symbol; scored = score_signals(...),
\* vr = the volume ratio.
ReportEntry(price, var, scored, vr) ==
    [score |-> scored[1], price |-> price, var |-> var, reasons |-> scored[2], vr |-> vr]

ReportScored(closes, vols, var) ==
    ReportEntry(LastOf(closes), var, score_signals(closes, vols, var, ""),
                estimate_volatility_tier(closes, vols))

\* The entry of every series, computed once.
ReportScore ==
    [c \in CandleNames |->
        ReportScored(Candles[c].closes, Candles[c].vols,
                     ReportVar(LastOf(Candles[c].closes), PrevClose(Candles[c].closes)))]

\* if score < REPORT_SCORE_MIN: continue; items.append(...)
ReportItemOf(s, r) == IF r.score < REPORT_SCORE_MIN THEN <<>> ELSE <<[symbol |-> s] @@ r>>

\* The body of "for s in symbols" for symbol s whose fetch answers f: the
\* item appended, if any.
ReportItem(s, f) ==
    IF safe_fetch_ohlcv(f)[1] = None THEN <<>> ELSE ReportItemOf(s, ReportScore[f])

\* The loop "for s in symbols": the items appended for symbols[i..].
RECURSIVE ReportItems(_, _, _)
ReportItems(symbols, market, i) ==
    IF i > Len(symbols) THEN <<>>
    ELSE ReportItem(symbols[i], market[symbols[i]]) \o ReportItems(symbols, market, i + 1)

\* Faulty variant: the items are left in the order they were collected.
KeepOrder(items) == items

\* sorted(items, key=lambda x: x["score"], reverse=True): stable, so items
\* of equal score keep their order.
RECURSIVE SortByScoreDesc(_)
SortByScoreDesc(items) ==
    IF items = <<>> THEN <<>>
    ELSE LET n == Len(items)
             x == items[n]
             front == SortByScoreDesc(SubSeq(items, 1, n - 1))
             k == Cardinality({j \in DOMAIN front : front[j].score >= x.score})
         IN  SubSeq(front, 1, k) \o <<x>> \o SubSeq(front, k + 1, Len(front))

\* [:REPORT_MAX_ITEMS]
FirstItems(sorted) == SubSeq(sorted, 1, Min(Len(sorted), REPORT_MAX_ITEMS))

\* The messages of a report on items, in order: nothing when there is no
\* item, otherwise the bulk summary and then one photo or caption per item.
ReportMessages(items, tf_label) ==
    IF items = <<>> THEN <<>>
    ELSE <<[kind |-> "report", tf_label |-> tf_label, entries |-> items]>>
         \o [i \in 1..Len(items) |->
                [kind |-> "item", symbol |-> items[i].symbol,
                 score |-> items[i].score, var |-> items[i].var]]

\* The messages one run hands to Telegram.
build_and_send_wyckoff_report(symbols, tf_label, tf, market) ==
    ReportMessages(FirstItems(SortByScoreDesc(ReportItems(symbols, market, 1))), tf_label)

ReportInputs ==
    [symbols : {ReportSymbols}, tf_label : {"4h"}, tf : {"4h"},
     market : [{ReportSymbols[i] : i \in DOMAIN ReportSymbols} -> Fetches]]

\* One call build_and_send_wyckoff_report(symbols, tf_label, tf).
ReportRun ==
    /\ prog = "report"
    /\ pos = 0
    /\ pos' = 1
    /\ sink' = build_and_send_wyckoff_report(config.symbols, config.tf_label,
                                              config.tf, config.market)
    /\ UNCHANGED <<prog, config, threadVars, now, inp, flaskVars, svcVars, histVars, cryptoVars>>

InitReport ==
    /\ prog = "report"
    /\ config \in ReportInputs
    /\ now = StartTime
    /\ inp = "none"
    /\ sink = <<>>
    /\ pos = 0
    /\ FlaskIdle
    /\ SvcIdle
    /\ HistIdle
    /\ ThreadsIdle
    /\ CryptoIdle

NextReport == ReportRun

SpecReport == InitReport /\ [][NextReport]_vars

\* Faulty variant: the report thread refreshes the price baseline of the
\* symbols it fetched.
ReportThreadWritesPrices ==
    /\ prog = "flask"
    /\ "run" \in DOMAIN config /\ config.run = "concurrent"
    /\ \E kind \in threads \ DOMAIN pc :
         \E market \in [{FlaskSymbols[i] : i \in DOMAIN FlaskSymbols} -> Fetches] :
            /\ pc' = Put(pc, kind, "done")
            /\ sink' = build_and_send_wyckoff_report(FlaskSymbols, kind[1], kind[2], market)
            /\ last_prices' = [k \in DOMAIN last_prices |-> 0]
    /\ UNCHANGED <<prog, config, lock, now, inp, pos, flaskAlertVars, flaskLoopVars,
                   svcVars, histVars, cryptoVars>>

\* A report thread that monitor_loop started runs, at any point of the
\* monitor's cycle: build_and_send_wyckoff_report(symbols, tf_label, tf)
\* fetches, scores and sends; it names none of the monitor's maps.
ReportThread ==
    /\ prog = "flask"
    /\ "run" \in DOMAIN config /\ config.run = "concurrent"
    /\ \E kind \in threads \ DOMAIN pc :
         \E market \in [{FlaskSymbols[i] : i \in DOMAIN FlaskSymbols} -> Fetches] :
            /\ pc' = Put(pc, kind, "done")
            /\ sink' = build_and_send_wyckoff_report(FlaskSymbols, kind[1], kind[2], market)
    /\ UNCHANGED <<prog, config, lock, now, inp, pos, flaskVars, svcVars, histVars, cryptoVars>>

\* The flask script with its report threads running beside the monitor.
InitFlaskConcurrent ==
    /\ prog = "flask"
    /\ config \in {[THRESHOLDS |-> t, run |-> "concurrent"] : t \in ThresholdConfigs}
    /\ now = StartTime
    /\ inp = "none"
    /\ sink = <<>>
    /\ pos = 1
    /\ last_prices = EmptyDict
    /\ last_alert_time = EmptyDict
    /\ last_volume_alert_time = EmptyDict
    /\ first = TRUE
    /\ last_hb = 0
    /\ last_r4 = 0
    /\ last_daily = 0
    /\ last_weekly = 0
    /\ threads = {}
    /\ SvcIdle
    /\ HistIdle
    /\ ThreadsIdle
    /\ CryptoIdle

NextFlaskConcurrent == NextFlask \/ ReportThread

SpecFlaskConcurrent == InitFlaskConcurrent /\ [][NextFlaskConcurrent]_vars

(***************************************************************************)
(* crypto_alert_1m_1h.py: monitor_loop and check_changes (prog =           *)
(* "crypto").  The clock of this script counts seconds.  One step is one   *)
(* pass of "while True": a whole check_changes() and the sleep after it.   *)
(* Every time.time() of one pass reads the same value.  The volatility     *)
(* tier and the interpretation text only decorate messages and are not     *)
(* represented.                                                            *)
(***************************************************************************)
CHECK_INTERVAL == 60
MAX_RETRIES == 5
MAX_CANDIDATES_PER_CYCLE == 1
RSI_PERIOD == 14
EMA_PERIOD == 20
BREAKOUT_LOOKBACK == 15
\* VOLUME_SPIKE_FACTOR = 1.5
VOLUME_SPIKE_FACTOR == Rat(3, 2)
\* BREAKOUT_BUFFER = 0.002
BREAKOUT_BUFFER == Rat(2, 1000)
\* The cap of last_volumes[symbol]["rolling"].
ROLLING_CAP == 100
\* Passes of the crypto loop that are explored.
CryptoCycles == 2
\* Number of candles of a kline answer (the code asks for 60).
KlineLen == 25

\* Passes of the crypto loop that a long run explores.
LongCycles == 6

\* PRICE_CHANGE_THRESHOLD configurations (percent): the default and 0.  The
\* field run names what the exchange does during the run: "wide" is two
\* symbols with every ticker entry and passes that take CHECK_INTERVAL.
CryptoConfigs == {[PRICE_CHANGE_THRESHOLD |-> RInt(t), run |-> "wide"] : t \in {5, 0}}

\* A long run: one listed symbol at a steady price that is a candidate in
\* every pass (PRICE_CHANGE_THRESHOLD = 0), klines that always arrive, and
\* passes whose network calls may take 4 * CHECK_INTERVAL.
LongRunConfigs == {[PRICE_CHANGE_THRESHOLD |-> RInt(0), run |-> "long"]}

CryptoSymbols == <<"BTCUSDT", "ETHUSDT">>

\* The entries a ticker list can hold for a symbol: price and volume as the
\* code extracts them (price 0: no usable price field); "bad" is an entry
\* that is not a dictionary.
Coins ==
    [c100  |-> [price |-> 100, vol |-> 1000],
     c106  |-> [price |-> 106, vol |-> 1000],
     c100v |-> [price |-> 100, vol |-> 3000],
     c0    |-> [price |-> 0, vol |-> 1000]]

\* What the ticker list can hold for each symbol: every coin or no entry
\* ("absent") for the first symbol; for the second a price, no entry, or an
\* entry that is not a dictionary ("bad").
CoinNames ==
    [x \in {CryptoSymbols[i] : i \in DOMAIN CryptoSymbols} |->
        IF x = CryptoSymbols[1] THEN DOMAIN Coins \cup {"absent"}
        ELSE {"c100", "c106", "absent", "bad"}]

\* The answers of one ticker fetch: a coin name for every symbol.
TickerAnswers ==
    {tk \in [DOMAIN CoinNames -> UNION {CoinNames[x] : x \in DOMAIN CoinNames}] :
        \A x \in DOMAIN CoinNames : tk[x] \in CoinNames[x]}

\* What fetch_klines_1m can return: closes and volumes, oldest first.
Klines ==
    [kquiet |-> [closes |-> Shape(KlineLen, <<101, 100>>),
                 volumes |-> VolShape(KlineLen, 1000, 1000)],
     kup    |-> [closes |-> Shape(KlineLen, <<106>>),
                 volumes |-> VolShape(KlineLen, 1000, 1000)],
     kdown  |-> [closes |-> Shape(KlineLen, <<94>>),
                 volumes |-> VolShape(KlineLen, 1000, 1000)],
     kvol   |-> [closes |-> Shape(KlineLen, <<101, 100>>),
                 volumes |-> VolShape(KlineLen, 1000, 3000)],
     kthin  |-> [closes |-> Shape(KlineLen, <<101, 100>>),
                 volumes |-> VolShape(KlineLen, 500, 1000)]]

\* The answers of fetch_klines_1m in a wide run ("fail": None).
KlineNames == {"kquiet", "kup", "kdown", "kvol", "fail"}

\* The answers of fetch_klines_1m in a long run.
LongKlineNames == {"kquiet", "kup", "kdown", "kthin"}

\* A late run: the passes of a process that has been running for about
\* ROLLING_CAP passes, with one listed symbol that is a candidate in every
\* pass and whose ticker and candle volumes vary.
LateRunConfigs == {[PRICE_CHANGE_THRESHOLD |-> RInt(0), run |-> "late"]}

\* Passes of a late run that are explored.
LateCycles == 3

\* The samples the window of the symbol may miss to be full when a late run
\* begins.
LateRoom == 2

LateTickerAnswers ==
    {[x \in DOMAIN CoinNames |-> IF x = CryptoSymbols[1] THEN c ELSE "absent"] :
        c \in {"c100", "c100v"}}

LateKlineNames == {"kquiet", "kvol", "fail"}

\* The answers of the ticker fetch in a long run.
LongTickerAnswers ==
    {[x \in DOMAIN CoinNames |-> IF x = CryptoSymbols[1] THEN "c100" ELSE "absent"]}

\* A retry run: the ticker request can be answered, rate-limited or fail at
\* every attempt; one symbol at a steady price, listed or not.
RetryRunConfigs == {[PRICE_CHANGE_THRESHOLD |-> RInt(5), run |-> "retry"]}

\* Passes of a retry run.
RetryCycles == 2

RetryTickerAnswers ==
    {[x \in DOMAIN CoinNames |-> IF x = CryptoSymbols[1] THEN c ELSE "absent"] :
        c \in {"c100", "absent"}}

\* A backoff run: many passes, each of which can fail on an entry that is
\* not a dictionary, succeed, or get no tickers.
BackoffRunConfigs == {[PRICE_CHANGE_THRESHOLD |-> RInt(5), run |-> "backoff"]}

\* Passes of a backoff run: enough failures in a row to reach the cap.
BackoffCycles == 10

BackoffTickerAnswers ==
    {[x \in DOMAIN CoinNames |-> IF x = CryptoSymbols[1] THEN c[1] ELSE c[2]] :
        c \in {<<"c100", "absent">>, <<"c100", "bad">>, <<"absent", "absent">>}}

\* What the exchange can answer, and how long a pass can take beyond its
\* sleep, in the run of configuration cfg.
RunTickers(cfg) ==
    CASE cfg.run = "long" -> LongTickerAnswers
      [] cfg.run = "late" -> LateTickerAnswers
      [] cfg.run = "retry" -> RetryTickerAnswers
      [] cfg.run = "backoff" -> BackoffTickerAnswers
      [] OTHER -> TickerAnswers

\* What one request of get_all_tickers can meet: a usable answer, HTTP 429,
\* or an exception (timeout, HTTP error, broken JSON).
Attempts == {"ok", "429", "error"}

\* The fate of the MAX_RETRIES requests of one get_all_tickers() call: drawn
\* freely in a retry run, otherwise the first request is answered.
RunAnswers(cfg) ==
    IF "run" \in DOMAIN cfg /\ cfg.run = "retry"
    THEN [1..MAX_RETRIES -> Attempts]
    ELSE {[i \in 1..MAX_RETRIES |-> "ok"]}

RunKlines(cfg) ==
    CASE cfg.run = "long" -> LongKlineNames
      [] cfg.run = "late" -> LateKlineNames
      [] OTHER -> KlineNames

RunLatency(cfg) == IF cfg.run = "long" THEN {0, CHECK_INTERVAL * 4} ELSE {0}

RunPasses(cfg) ==
    CASE cfg.run = "long" -> LongCycles
      [] cfg.run = "late" -> LateCycles
      [] cfg.run = "retry" -> RetryCycles
      [] cfg.run = "backoff" -> BackoffCycles
      [] OTHER -> CryptoCycles

\* Faulty variant: when the retries are used up one more request is made
\* and its list returned.
RECURSIVE GetTickersOnceMore(_, _, _, _)
GetTickersOnceMore(answers, list, attempt, slept) ==
    IF attempt >= MAX_RETRIES
    THEN [list |-> list, attempts |-> attempt + 1, slept |-> slept]
    ELSE IF answers[attempt + 1] = "429"
    THEN GetTickersOnceMore(answers, list, attempt + 1, slept + 5 + attempt * 5)
    ELSE IF answers[attempt + 1] = "error"
    THEN GetTickersOnceMore(answers, list, attempt + 1, slept + 3)
    ELSE [list |-> list, attempts |-> attempt + 1, slept |-> slept]

\* get_all_tickers() from "for attempt in range(MAX_RETRIES)" at attempt,
\* when request i meets answers[i] and a usable answer holds list: the list
\* returned, the requests made and the seconds slept between them.
RECURSIVE get_all_tickers(_, _, _, _)
get_all_tickers(answers, list, attempt, slept) ==
    IF attempt >= MAX_RETRIES
    THEN [list |-> <<>>, attempts |-> attempt, slept |-> slept]
    ELSE IF answers[attempt + 1] = "429"
    THEN get_all_tickers(answers, list, attempt + 1, slept + 5 + attempt * 5)
    ELSE IF answers[attempt + 1] = "error"
    THEN get_all_tickers(answers, list, attempt + 1, slept + 3)
    ELSE [list |-> list, attempts |-> attempt + 1, slept |-> slept]

\* Faulty variant: the backoff doubles without a cap.
BackoffUncapped(b) == b * 2

\* backoff = min(300, backoff * 2)
NextBackoff(b) == Min(300, b * 2)

\* time.sleep(min(60, backoff))
ErrorSleep(b) == Min(60, b)

\* Faulty variant: the 2m window is due after one minute.
ChecksTooEarly == <<<<"1m", 60>>, <<"2m", 60>>, <<"5m", 300>>>>

\* checks = [("1m", 60), ("2m", 120), ("5m", 300)]
Checks == <<<<"1m", 60>>, <<"2m", 120>>, <<"5m", 300>>>>

\* Faulty variant: nothing is ever evicted.
RollingAppendAll(rolling, v) == Append(rolling, v)

\* rolling.append(v); if len(rolling) > 100: rolling.pop(0)
RollingAppend(rolling, v) ==
    IF Len(rolling) + 1 > ROLLING_CAP THEN Tail(Append(rolling, v))
    ELSE Append(rolling, v)

\* rolling.append(ticker_vol); ...; baseline = mean(rolling): the baseline
\* of the rolling-volume test, from the window before the append.
RollingBaseline(rolling, ticker_vol) == Mean(RollingAppend(rolling, ticker_vol))

\* "for label, period in checks" for one symbol, from check i on.
\* st = [last_prices, last_alerts, crossed]; returns it updated.
RECURSIVE CheckWindows(_, _, _, _, _, _)
CheckWindows(st, symbol, price, t, threshold, i) ==
    IF i > Len(Checks) THEN st
    ELSE LET label == Checks[i][1]
             period == Checks[i][2]
             prev_entry == st.last_prices[symbol][label]
             prev_price == prev_entry.price
             prev_ts == prev_entry.ts
             change_pct == IF prev_price # 0
                           THEN Rat((price - prev_price) * 100, prev_price)
                           ELSE RInt(0)
             hit == RLe(threshold, RAbs(change_pct))
             alerts == IF hit
                       THEN Put(st.last_alerts, symbol,
                                Put(Get(st.last_alerts, symbol, EmptyDict),
                                    "price_" \o label, t))
                       ELSE st.last_alerts
             prices == Put(st.last_prices, symbol,
                           Put(st.last_prices[symbol], label,
                               [price |-> price, ts |-> t]))
         IN  IF t - prev_ts >= period
             THEN CheckWindows([last_prices |-> prices, last_alerts |-> alerts,
                                crossed |-> st.crossed \/ hit],
                               symbol, price, t, threshold, i + 1)
             ELSE CheckWindows(st, symbol, price, t, threshold, i + 1)

\* dict.pop(k, None)
Remove(m, k) == [x \in DOMAIN m \ {k} |-> m[x]]

\* symbol not in last_prices
IsNewSymbol(symbol, prices) == symbol \notin DOMAIN prices

\* The loop "for coin in tickers", from entry i on.  tickers is a sequence
\* of <<symbol, coin name>>.  S = [last_prices, last_alerts, last_volumes,
\* cands, raised]: the three maps, candidates_for_klines, and whether an
\* exception left the loop.
RECURSIVE TickerLoop(_, _, _, _, _)
TickerLoop(S, tickers, i, t, threshold) ==
    IF i > Len(tickers) THEN S
    ELSE LET symbol == tickers[i][1]
             c == tickers[i][2]
         IN  IF c = "bad" THEN [S EXCEPT !.raised = TRUE]
             ELSE IF Coins[c].price <= 0
             THEN TickerLoop(S, tickers, i + 1, t, threshold)
             ELSE LET last_price_val == Coins[c].price
                      ticker_vol == Coins[c].vol
                  IN  IF IsNewSymbol(symbol, S.last_prices)
                      THEN TickerLoop(
                             [S EXCEPT
                                !.last_prices = Put(S.last_prices, symbol,
                                    [x \in {"1m", "2m", "5m"} |->
                                        [price |-> last_price_val, ts |-> t]]),
                                !.last_volumes =
                                    IF symbol \in DOMAIN S.last_volumes
                                    THEN S.last_volumes
                                    ELSE Put(S.last_volumes, symbol,
                                             [vol1m |-> [vol |-> ticker_vol, ts |-> t],
                                              rolling |-> <<ticker_vol>>])],
                             tickers, i + 1, t, threshold)
                      ELSE LET w == CheckWindows(
                                      [last_prices |-> S.last_prices,
                                       last_alerts |-> S.last_alerts,
                                       crossed |-> FALSE],
                                      symbol, last_price_val, t, threshold, 1)
                               lv == Get(S.last_volumes, symbol,
                                         [vol1m |-> [vol |-> ticker_vol, ts |-> t],
                                          rolling |-> <<>>])
                               rolling == RollingAppend(lv.rolling, ticker_vol)
                               baseline == RollingBaseline(lv.rolling, ticker_vol)
                               volume_hit == /\ ticker_vol # 0
                                             /\ baseline[1] > 0
                                             /\ RLe(VOLUME_SPIKE_FACTOR,
                                                    RDiv(RInt(ticker_vol), baseline))
                           IN  TickerLoop(
                                 [S EXCEPT
                                    !.last_prices = w.last_prices,
                                    !.last_alerts = w.last_alerts,
                                    !.last_volumes =
                                        IF ticker_vol # 0
                                        THEN Put(S.last_volumes, symbol,
                                                 [lv EXCEPT !.rolling = rolling])
                                        ELSE S.last_volumes,
                                    !.cands = S.cands
                                              \cup (IF w.crossed \/ volume_hit
                                                    THEN {symbol} ELSE {})],
                                 tickers, i + 1, t, threshold)

\* if baseline_vol > 0 and last_vol / baseline_vol >= VOLUME_SPIKE_FACTOR
VolSpike(last_vol, baseline_vol) ==
    /\ baseline_vol[1] > 0
    /\ RLe(VOLUME_SPIKE_FACTOR, RDiv(RInt(last_vol), baseline_vol))

\* (last_vol / baseline_vol) if baseline_vol else 1.0
VolRatio(last_vol, baseline_vol) ==
    IF baseline_vol[1] > 0 THEN RDiv(RInt(last_vol), baseline_vol) ELSE RInt(1)

\* last_vol = volumes[-1] if volumes else 0
LastVol(volumes) == IF volumes # <<>> THEN LastOf(volumes) ELSE 0

\* The baseline of the candidate loop: the five candles before the newest.
BaselineVol(volumes) ==
    IF Len(volumes) >= 6
    THEN Mean(SubSeq(volumes, Len(volumes) - 5, Len(volumes) - 1))
    ELSE IF Len(volumes) > 1
    THEN Mean(SubSeq(volumes, 1, Len(volumes) - 1))
    ELSE RInt(LastVol(volumes))

\* breakout_score(closes): "upper", "lower" or "none".
BreakoutType(recent, last_close) ==
    IF recent = <<>> THEN "none"
    ELSE IF RLt(RMul(RInt(MaxSeq(recent)), RAdd(RInt(1), BREAKOUT_BUFFER)),
                RInt(last_close))
    THEN "upper"
    ELSE IF RLt(RInt(last_close),
                RMul(RInt(MinSeq(recent)), RSub(RInt(1), BREAKOUT_BUFFER)))
    THEN "lower"
    ELSE "none"

\* last_close against ema20 * 1.002 and ema20 * 0.998.
EmaRelation(ema20, last_close) ==
    IF ema20 = None THEN "none"
    ELSE IF RLt(RMul(ema20, Rat(1002, 1000)), RInt(last_close)) THEN "above"
    ELSE IF RLt(RInt(last_close), RMul(ema20, Rat(998, 1000))) THEN "below"
    ELSE "none"

\* The closes before the newest that breakout_score compares with.
Recent(closes) ==
    SubSeq(closes, Len(closes) - Min(BREAKOUT_LOOKBACK, Len(closes) - 1), Len(closes) - 1)

\* What the candidate loop derives from the closes and volumes of a kline
\* answer.  (A missing indicator is None.)
FactsOf(closes, volumes) ==
    [rsi |-> IF Len(closes) >= RSI_PERIOD + 1
             THEN compute_rsi(LastN(closes, RSI_PERIOD + 1), RSI_PERIOD)
             ELSE None,
     last_vol |-> LastVol(volumes),
     vol_ratio |-> VolRatio(LastVol(volumes), BaselineVol(volumes)),
     vol_spike |-> VolSpike(LastVol(volumes), BaselineVol(volumes)),
     breakout_type |-> BreakoutType(Recent(closes), LastOf(closes)),
     ema_relation |->
         EmaRelation(IF Len(closes) >= EMA_PERIOD
                     THEN compute_ema(RatSeq(LastN(closes, EMA_PERIOD)), EMA_PERIOD)
                     ELSE None,
                     LastOf(closes)),
     last_close |-> LastOf(closes)]

\* The facts of every kline answer, computed once.
KlineFacts == [k \in DOMAIN Klines |-> FactsOf(Klines[k].closes, Klines[k].volumes)]

\* Faulty variant: an alert is let through when exactly the cooldown has passed.
CryptoCooledAtEnd(last_t, t, cooldown) == last_t = 0 \/ t - last_t >= cooldown

\* The cooldown test of the indicator alerts:
\* not last_t or time.time() - last_t > cooldown   (last_t = 0: no entry)
CryptoCooled(last_t, t, cooldown) == last_t = 0 \/ t - last_t > cooldown

\* One indicator alert of the candidate loop: if wanted and cooled, append
\* <<name, t>> to the alerts and stamp last_alerts[symbol][slot].
\* A = [la, out, made]: last_alerts[symbol] (made: whether setdefault
\* created or found it), and alerts_to_send.
IndicatorAlert(A, wanted, name, slot, t, cooldown) ==
    IF ~wanted THEN A
    ELSE IF CryptoCooled(Get(A.la, slot, 0), t, cooldown)
    THEN [la |-> Put(A.la, slot, t), out |-> Append(A.out, <<name, t>>), made |-> TRUE]
    ELSE [A EXCEPT !.made = TRUE]

\* A recorded price crossing: sent, and removed from last_alerts, when it is
\* at most 3 * CHECK_INTERVAL old.
PriceAlert(A, slot, t) ==
    LET pa == Get(A.la, slot, 0)
    IN  IF pa # 0 /\ t - pa <= CHECK_INTERVAL * 3
        THEN [A EXCEPT !.la = Remove(A.la, slot), !.out = Append(A.out, <<slot, pa>>)]
        ELSE A

\* if rsi >= 70: ... elif rsi <= 30: ...
RsiAlert(A, rsi, t) ==
    IF rsi # None /\ RLe(RInt(70), rsi)
    THEN IndicatorAlert(A, TRUE, "rsi_high", "rsi_high", t, CHECK_INTERVAL * 10)
    ELSE IndicatorAlert(A, rsi # None /\ RLe(rsi, RInt(30)), "rsi_low", "rsi_low", t,
                        CHECK_INTERVAL * 10)

\* if last_close > ema20 * 1.002: ... elif last_close < ema20 * 0.998: ...
EmaAlert(A, ema_relation, t) ==
    IF ema_relation = "above"
    THEN IndicatorAlert(A, TRUE, "ema_up", "ema_up", t, CHECK_INTERVAL * 15)
    ELSE IndicatorAlert(A, ema_relation = "below", "ema_down", "ema_down", t,
                        CHECK_INTERVAL * 15)

\* The alerts of one candidate, in the order the code appends them.
\* A0 = [la, out, made] before the first.
CandidateAlerts(A0, f, t) ==
    EmaAlert(
      IndicatorAlert(
        RsiAlert(
          IndicatorAlert(
            PriceAlert(PriceAlert(A0, "price_1m", t), "price_2m", t),
            f.vol_spike, "vol_spike", "vol_spike", t, CHECK_INTERVAL * 5),
          f.rsi, t),
        f.breakout_type # "none", "breakout_" \o f.breakout_type, "breakout", t,
        CHECK_INTERVAL * 5),
      f.ema_relation, t)

\* change_pct_1m = (last_close - prev_1m_price) / prev_1m_price * 100, or None
ChangePct1m(last_close, prev_1m_price) ==
    IF prev_1m_price # 0
    THEN Rat((last_close - prev_1m_price) * 100, prev_1m_price)
    ELSE None

\* The messages of one candidate: one per alert of out.
CandidateMessages(symbol, out, f, change_pct_1m) ==
    [j \in 1..Len(out) |->
        [kind |-> "alert", key |-> symbol, type |-> out[j][1], ts |-> out[j][2],
         price |-> f.last_close, change_pct_1m |-> change_pct_1m, rsi |-> f.rsi,
         vol_ratio |-> f.vol_ratio]]

\* last_volumes[symbol] after the candidate's newest volume is appended.
CandidateVolumes(lv, last_vol, t) ==
    [vol1m |-> [vol |-> last_vol, ts |-> t],
     rolling |-> RollingAppend(lv.rolling, last_vol)]

\* The state after one candidate whose alerts are A.
CandidateDone(S, symbol, f, closes, volumes, A, t) ==
    [last_prices |-> S.last_prices,
     last_alerts |-> IF A.made THEN Put(S.last_alerts, symbol, A.la)
                     ELSE S.last_alerts,
     last_volumes |-> Put(S.last_volumes, symbol,
                          CandidateVolumes(
                            Get(S.last_volumes, symbol,
                                [vol1m |-> [vol |-> f.last_vol, ts |-> t],
                                 rolling |-> <<>>]),
                            f.last_vol, t)),
     kline_cache |-> Put(S.kline_cache, symbol,
                         [closes |-> LastN(closes, 60),
                          volumes |-> LastN(volumes, 60)]),
     msgs |-> S.msgs \o
              CandidateMessages(symbol, A.out, f,
                                ChangePct1m(f.last_close,
                                            S.last_prices[symbol]["1m"].price))]

\* The body of "for symbol in candidates" for one symbol and the answer k of
\* fetch_klines_1m.  S = [last_prices, last_alerts, last_volumes,
\* kline_cache, msgs].
ProcessCandidate(S, symbol, k, t) ==
    IF k = "fail" THEN S
    ELSE CandidateDone(S, symbol, KlineFacts[k], Klines[k].closes, Klines[k].volumes,
                       CandidateAlerts(
                         [la |-> Get(S.last_alerts, symbol, EmptyDict), out |-> <<>>,
                          made |-> symbol \in DOMAIN S.last_alerts],
                         KlineFacts[k], t),
                       t)

\* "for symbol in candidates", from candidate i on; kl maps each symbol to
\* the answer of its kline fetch.
RECURSIVE CandidateLoop(_, _, _, _, _)
CandidateLoop(S, candidates, kl, t, i) ==
    IF i > Len(candidates) THEN S
    ELSE CandidateLoop(ProcessCandidate(S, candidates[i], kl[candidates[i]], t),
                       candidates, kl, t, i + 1)

\* The clock starts at an epoch that exceeds every interval of the script.
CryptoStart == 1000

\* The orders in which list(candidates_for_klines) can enumerate a set.
Orders(S) ==
    {o \in [1..Cardinality(S) -> S] : \A i, j \in 1..Cardinality(S) : o[i] = o[j] => i = j}

\* The ticker list get_all_tickers() returns when the exchange lists tk[x]
\* for symbol x ("absent": not listed), in the order of CryptoSymbols.
RECURSIVE TickerList(_, _)
TickerList(tk, i) ==
    IF i > Len(CryptoSymbols) THEN <<>>
    ELSE (IF tk[CryptoSymbols[i]] = "absent" THEN <<>>
          ELSE <<<<CryptoSymbols[i], tk[CryptoSymbols[i]]>>>>)
         \o TickerList(tk, i + 1)

\* The end of a pass whose candidate loop left S2: the messages go out,
\* backoff = 1 and the loop sleeps CHECK_INTERVAL.
AfterCandidates(tk, kl, S2) ==
    /\ inp' = [tickers |-> tk, klines |-> kl]
    /\ sink' = S2.msgs
    /\ last_prices' = S2.last_prices
    /\ last_alerts' = S2.last_alerts
    /\ last_volumes' = S2.last_volumes
    /\ kline_cache' = S2.kline_cache
    /\ backoff' = 1
    /\ \E d \in RunLatency(config) : now' = now + CHECK_INTERVAL + d

\* candidates = list(candidates_for_klines)[:MAX_CANDIDATES_PER_CYCLE]
FirstCandidates(order) == SubSeq(order, 1, Min(Len(order), MAX_CANDIDATES_PER_CYCLE))

\* The pass after its ticker loop left S1: the exception handler of
\* monitor_loop if the loop raised, the candidate loop otherwise.
AfterTickers(tk, S1, t) ==
    IF S1.raised
    THEN /\ inp' = [tickers |-> tk, klines |-> EmptyDict]
         /\ sink' = <<>>
         /\ last_prices' = S1.last_prices
         /\ last_alerts' = Put(S1.last_alerts, "_last_error", [ts |-> t])
         /\ last_volumes' = S1.last_volumes
         /\ UNCHANGED kline_cache
         /\ now' = now + ErrorSleep(backoff)
         /\ backoff' = NextBackoff(backoff)
    ELSE \E order \in Orders(S1.cands) :
           \E kl \in [{FirstCandidates(order)[i] : i \in DOMAIN FirstCandidates(order)}
                      -> RunKlines(config)] :
             AfterCandidates(tk, kl,
                 CandidateLoop([last_prices |-> S1.last_prices,
                                last_alerts |-> S1.last_alerts,
                                last_volumes |-> S1.last_volumes,
                                kline_cache |-> kline_cache, msgs |-> <<>>],
                               FirstCandidates(order), kl, t, 1))

\* check_changes() on the ticker list, and what monitor_loop does with its
\* outcome.  An empty list returns at once.
CheckTickers(tk, tickers, t) ==
    IF tickers = <<>>
    THEN /\ inp' = [tickers |-> tk, klines |-> EmptyDict]
         /\ sink' = <<>>
         /\ backoff' = 1
         /\ now' = now + CHECK_INTERVAL
         /\ UNCHANGED <<last_prices, last_alerts, last_volumes, kline_cache>>
    ELSE AfterTickers(tk,
                      TickerLoop([last_prices |-> last_prices,
                                  last_alerts |-> last_alerts,
                                  last_volumes |-> last_volumes, cands |-> {},
                                  raised |-> FALSE],
                                 tickers, 1, t, config.PRICE_CHANGE_THRESHOLD),
                      t)

\* The alert kinds that have a cooldown, with the cooldown of each in
\* seconds (the slot of last_alerts[symbol] is the kind).
KindCooldown ==
    [vol_spike |-> CHECK_INTERVAL * 5, rsi_high |-> CHECK_INTERVAL * 10,
     rsi_low |-> CHECK_INTERVAL * 10, breakout |-> CHECK_INTERVAL * 5,
     ema_up |-> CHECK_INTERVAL * 15, ema_down |-> CHECK_INTERVAL * 15]

\* The kind of an alert type: both breakout types share the slot "breakout".
KindOf(type) == IF type \in {"breakout_upper", "breakout_lower"} THEN "breakout" ELSE type

\* Whether the condition of kind holds for the kline facts f.
KindWanted(kind, f) ==
    CASE kind = "vol_spike" -> f.vol_spike
      [] kind = "rsi_high" -> f.rsi # None /\ RLe(RInt(70), f.rsi)
      [] kind = "rsi_low" -> f.rsi # None /\ ~RLe(RInt(70), f.rsi) /\ RLe(f.rsi, RInt(30))
      [] kind = "breakout" -> f.breakout_type # "none"
      [] kind = "ema_up" -> f.ema_relation = "above"
      [] kind = "ema_down" -> f.ema_relation = "below"

\* Whether msgs holds an alert of kind for symbol.
KindSent(msgs, symbol, kind) ==
    \E j \in DOMAIN msgs : msgs[j].key = symbol /\ KindOf(msgs[j].type) = kind

\* The <<symbol, kind>> whose condition holds in a pass that gave the
\* candidates the klines kl.
KindsWanted(kl) ==
    {key \in (DOMAIN kl) \X (DOMAIN KindCooldown) :
        kl[key[1]] # "fail" /\ KindWanted(key[2], KlineFacts[kl[key[1]]])}

NoKind == [at |-> 0, dropped |-> FALSE, again |-> FALSE]

\* History of the dispatches of one pass at time t, per <<symbol, kind>>:
\* at is the time of the last dispatch, dropped whether a true condition
\* was left unsent since, again whether the last dispatch followed such a
\* drop.  kl maps the candidates to the klines they were given.
CryptoHist(h, msgs, kl, t) ==
    [key \in DOMAIN h \cup KindsWanted(kl) |->
        IF key \notin KindsWanted(kl) THEN h[key]
        ELSE IF KindSent(msgs, key[1], key[2])
        THEN [at |-> t, dropped |-> FALSE, again |-> Get(h, key, NoKind).dropped]
        ELSE [Get(h, key, NoKind) EXCEPT !.dropped = TRUE]]

\* check_changes() when get_all_tickers() returned tickers, the exchange
\* listing tk.
check_changes(tk, tickers) == CheckTickers(tk, tickers, now)

\* One pass of monitor_loop's "while True".
CryptoCycle ==
    /\ prog = "crypto"
    /\ pos < RunPasses(config)
    /\ pos' = pos + 1
    /\ \E tk \in RunTickers(config) :
         \E answers \in RunAnswers(config) :
            /\ ret' = [answers |-> answers]
                       @@ get_all_tickers(answers, TickerList(tk, 1), 0, 0)
            /\ check_changes(tk, ret'.list)
    /\ hist' = CryptoHist(hist, sink', inp'.klines, now)
    /\ UNCHANGED <<prog, config, threadVars, flaskAlertVars, flaskLoopVars,
                   previous_prices, loopVars, gap>>


InitCrypto ==
    /\ prog = "crypto"
    /\ config \in CryptoConfigs
    /\ now = CryptoStart
    /\ inp = "none"
    /\ sink = <<>>
    /\ pos = 0
    /\ FlaskIdle
    /\ SvcIdle
    /\ HistIdle
    /\ ThreadsIdle
    /\ CryptoIdle

NextCrypto == CryptoCycle

SpecCrypto == InitCrypto /\ [][NextCrypto]_vars

\* The script in a long run.
InitCryptoLong ==
    /\ prog = "crypto"
    /\ config \in LongRunConfigs
    /\ now = CryptoStart
    /\ inp = "none"
    /\ sink = <<>>
    /\ pos = 0
    /\ FlaskIdle
    /\ SvcIdle
    /\ HistIdle
    /\ ThreadsIdle
    /\ CryptoIdle

SpecCryptoLong == InitCryptoLong /\ [][NextCrypto]_vars

\* The script in a retry run.
InitCryptoRetry ==
    /\ prog = "crypto"
    /\ config \in RetryRunConfigs
    /\ now = CryptoStart
    /\ inp = "none"
    /\ sink = <<>>
    /\ pos = 0
    /\ FlaskIdle
    /\ SvcIdle
    /\ HistIdle
    /\ ThreadsIdle
    /\ CryptoIdle

SpecCryptoRetry == InitCryptoRetry /\ [][NextCrypto]_vars

\* The script in a backoff run.
InitCryptoBackoff ==
    /\ prog = "crypto"
    /\ config \in BackoffRunConfigs
    /\ now = CryptoStart
    /\ inp = "none"
    /\ sink = <<>>
    /\ pos = 0
    /\ FlaskIdle
    /\ SvcIdle
    /\ HistIdle
    /\ ThreadsIdle
    /\ CryptoIdle

SpecCryptoBackoff == InitCryptoBackoff /\ [][NextCrypto]_vars

\* The script in a late run: the first symbol has been observed in every
\* earlier pass, the samples of its rolling window are numbered in arrival
\* order, and the window misses at most LateRoom samples to be full.
InitCryptoLate ==
    /\ prog = "crypto"
    /\ config \in LateRunConfigs
    /\ now = CryptoStart
    /\ inp = "none"
    /\ sink = <<>>
    /\ pos = 0
    /\ last_alert_time = EmptyDict
    /\ last_volume_alert_time = EmptyDict
    /\ first = TRUE
    /\ last_hb = 0
    /\ last_r4 = 0
    /\ last_daily = 0
    /\ last_weekly = 0
    /\ threads = {}
    /\ SvcIdle
    /\ HistIdle
    /\ ThreadsIdle
    /\ last_prices = [x \in {CryptoSymbols[1]} |->
                        [l \in {"1m", "2m", "5m"} |->
                            [price |-> 100, ts |-> CryptoStart - CHECK_INTERVAL]]]
    /\ last_alerts = EmptyDict
    /\ \E n \in (ROLLING_CAP - LateRoom)..ROLLING_CAP :
         last_volumes = [x \in {CryptoSymbols[1]} |->
                            [vol1m |-> [vol |-> 1000, ts |-> CryptoStart - CHECK_INTERVAL],
                             rolling |-> [i \in 1..n |-> i]]]
    /\ kline_cache = EmptyDict
    /\ backoff = 1

SpecCryptoLate == InitCryptoLate /\ [][NextCrypto]_vars

\* What float() and int() make of the texts an environment variable can
\* hold; a text that is not in the domain raises ValueError.
Numbers == [t \in {"5.0", "0", "-5", "60"} |->
               CASE t = "5.0" -> 5 [] t = "0" -> 0 [] t = "-5" -> 0 - 5 [] t = "60" -> 60]

\* The environments the script can be started in: PRICE_CHANGE_THRESHOLD
\* and CHECK_INTERVAL as texts.  The clock of the model keeps
\* CHECK_INTERVAL = 60 whenever the text parses.
CryptoEnvs ==
    [PRICE_CHANGE_THRESHOLD : {"5.0", "0", "-5", "abc"}, CHECK_INTERVAL : {"60", "abc"}]

\* The module's configuration lines (33-45) parse every variable.
Parses(env) == \A v \in DOMAIN env : env[v] \in DOMAIN Numbers

\* The script is loaded: float() and int() of the configuration lines run
\* at import; a ValueError ends the process before __main__, otherwise
\* __main__ goes on to monitor_loop with the values as they parsed.
CryptoStartup ==
    /\ prog = "crypto start"
    /\ IF Parses(config.env)
       THEN /\ prog' = "crypto"
            /\ config' = [PRICE_CHANGE_THRESHOLD |->
                              RInt(Numbers[config.env.PRICE_CHANGE_THRESHOLD]),
                          run |-> "wide", env |-> config.env]
       ELSE /\ prog' = "crashed"
            /\ UNCHANGED config
    /\ UNCHANGED <<threadVars, now, inp, sink, pos, flaskVars, svcVars, histVars,
                   cryptoVars>>

InitCryptoStart ==
    /\ prog = "crypto start"
    /\ config \in {[env |-> e] : e \in CryptoEnvs}
    /\ now = CryptoStart
    /\ inp = "none"
    /\ sink = <<>>
    /\ pos = 0
    /\ FlaskIdle
    /\ SvcIdle
    /\ HistIdle
    /\ ThreadsIdle
    /\ CryptoIdle

NextCryptoStart == CryptoStartup \/ CryptoCycle

SpecCryptoStart == InitCryptoStart /\ [][NextCryptoStart]_vars

(***************************************************************************)
(* Threads and _state_lock: crypto_alert_1m_1h.py and monitor_service.py   *)
(* statement by statement (prog = "crypto threads", "service threads").    *)
(* A statement is what a thread does between two points where another      *)
(* thread can run: a network call, taking or releasing _state_lock, a read *)
(* or write of shared state, starting a thread, or local work.  The        *)
(* contents of the maps are not represented here.                          *)
(***************************************************************************)
\* A statement: what it does (op), to what (obj), where it is in the source
\* (line) and the labels control can reach next.
Stmt(op, obj, line, next) == [op |-> op, obj |-> obj, line |-> line, next |-> next]

\* check_changes calls a run of the crypto threads explores.
ThreadCycles == 2

\* crypto: load_state_from_gist().  Without configuration, or when the GET
\* fails, it returns without touching the maps.
CryptoLoad ==
    ("load_cfg" :> Stmt("local", "config", 83, {"load_get", "start_flask"}))
    @@ ("load_get" :> Stmt("net", "gist", 89, {"load_acquire", "start_flask"}))
    @@ ("load_acquire" :> Stmt("acquire", "lock", 93, {"load_write"}))
    @@ ("load_write" :> Stmt("write", "maps", 94, {"load_release"}))
    @@ ("load_release" :> Stmt("release", "lock", 97, {"start_flask"}))

\* crypto: the threads __main__ starts after the load; the heartbeat thread
\* only if HEARTBEAT_ENABLED.
CryptoEntry ==
    ("start_flask" :> Stmt("start", "flask", 581, {"start_heartbeat", "tickers"}))
    @@ ("start_heartbeat" :> Stmt("start", "heartbeat", 584, {"tickers"}))

\* crypto: check_changes() up to its save, and the exception handler of
\* monitor_loop ("error").
CryptoCheck ==
    ("tickers" :> Stmt("net", "exchange", 307, {"ticker_loop", "sleep"}))
    @@ ("ticker_loop" :> Stmt("write", "maps", 315, {"klines", "save_cfg", "error"}))
    @@ ("klines" :> Stmt("net", "exchange", 376, {"candidate", "save_cfg"}))
    @@ ("candidate" :> Stmt("write", "maps", 380, {"send", "volumes"}))
    @@ ("send" :> Stmt("net", "telegram", 508, {"volumes"}))
    @@ ("volumes" :> Stmt("write", "maps", 511, {"klines", "save_cfg"}))
    @@ ("error" :> Stmt("write", "maps", 538, {"save_cfg"}))

\* Faulty variant: the PATCH goes out before the lock is released.
CryptoSaveHolding ==
    ("save_cfg" :> Stmt("local", "config", 103, {"save_acquire", "sleep"}))
    @@ ("save_acquire" :> Stmt("acquire", "lock", 106, {"save_read"}))
    @@ ("save_read" :> Stmt("read", "maps", 107, {"save_patch"}))
    @@ ("save_patch" :> Stmt("net", "gist", 119, {"save_release"}))
    @@ ("save_release" :> Stmt("release", "lock", 117, {"sleep"}))

\* crypto: save_state_to_gist().
CryptoSave ==
    ("save_cfg" :> Stmt("local", "config", 103, {"save_acquire", "sleep"}))
    @@ ("save_acquire" :> Stmt("acquire", "lock", 106, {"save_read"}))
    @@ ("save_read" :> Stmt("read", "maps", 107, {"save_release"}))
    @@ ("save_release" :> Stmt("release", "lock", 117, {"save_patch"}))
    @@ ("save_patch" :> Stmt("net", "gist", 119, {"sleep"}))

\* Faulty variant: every pass of the loop begins with a load.
CryptoSleepReload == "sleep" :> Stmt("sleep", "clock", 534, {"load_cfg"})

\* crypto: the sleep of monitor_loop, then the next check_changes().
CryptoSleep == "sleep" :> Stmt("sleep", "clock", 534, {"tickers"})

\* crypto: heartbeat_worker.
CryptoHeartbeat ==
    ("hb_send" :> Stmt("net", "telegram", 554, {"hb_sleep"}))
    @@ ("hb_sleep" :> Stmt("sleep", "clock", 557, {"hb_send"}))

\* crypto: the Flask thread serving "/" and "/test".
CryptoFlask ==
    ("serve" :> Stmt("local", "request", 581, {"home", "test"}))
    @@ ("home" :> Stmt("local", "clock", 69, {"serve"}))
    @@ ("test" :> Stmt("net", "telegram", 75, {"serve"}))

\* crypto: handle_sigterm, which the interpreter runs in the main thread
\* between two of its instructions: save_state_to_gist(), then os._exit(0).
handle_sigterm ==
    ("sig_cfg" :> Stmt("local", "config", 103, {"sig_acquire", "sig_exit"}))
    @@ ("sig_acquire" :> Stmt("acquire", "lock", 106, {"sig_read"}))
    @@ ("sig_read" :> Stmt("read", "maps", 107, {"sig_release"}))
    @@ ("sig_release" :> Stmt("release", "lock", 117, {"sig_patch"}))
    @@ ("sig_patch" :> Stmt("net", "gist", 119, {"sig_exit"}))
    @@ ("sig_exit" :> Stmt("exit", "process", 569, {"exited"}))

\* service: __main__ starts the three threads and idles.
ServiceEntry ==
    ("start_flask" :> Stmt("start", "flask", 228, {"start_monitor"}))
    @@ ("start_monitor" :> Stmt("start", "monitor", 232, {"start_heartbeat"}))
    @@ ("start_heartbeat" :> Stmt("start", "heartbeat", 236, {"keepalive"}))

\* service: refresh_symbols(); a failed load_markets leaves the list alone.
refresh_symbols ==
    ("refresh" :> Stmt("net", "exchange", 98, {"refresh_acquire", "syms_acquire"}))
    @@ ("refresh_acquire" :> Stmt("acquire", "lock", 104, {"refresh_write"}))
    @@ ("refresh_write" :> Stmt("write", "status", 105, {"refresh_release"}))
    @@ ("refresh_release" :> Stmt("release", "lock", 107, {"syms_acquire"}))

\* service: analyze_symbol_tf for the symbols of a cycle, one after the
\* other: the fetch, previous_prices.get and the assignment, the send.
analyze_symbol_tf ==
    ("fetch" :> Stmt("net", "exchange", 128, {"prices", "cycle_acquire"}))
    @@ ("prices" :> Stmt("write", "maps", 131, {"send", "fetch", "cycle_acquire"}))
    @@ ("send" :> Stmt("net", "telegram", 149, {"fetch", "cycle_acquire"}))

\* service: one cycle of monitor_loop around the analyses.
ServiceLoop ==
    ("syms_acquire" :> Stmt("acquire", "lock", 170, {"syms_read"}))
    @@ ("syms_read" :> Stmt("read", "status", 171, {"syms_release"}))
    @@ ("syms_release" :> Stmt("release", "lock", 171, {"fetch", "cycle_acquire"}))
    @@ ("cycle_acquire" :> Stmt("acquire", "lock", 193, {"cycle_write"}))
    @@ ("cycle_write" :> Stmt("write", "status", 194, {"cycle_release"}))
    @@ ("cycle_release" :> Stmt("release", "lock", 194, {"sleep"}))
    @@ ("sleep" :> Stmt("sleep", "clock", 200, {"refresh", "syms_acquire"}))

\* service: heartbeat_worker.
heartbeat_worker ==
    ("hb_sleep" :> Stmt("sleep", "clock", 210, {"hb_acquire"}))
    @@ ("hb_acquire" :> Stmt("acquire", "lock", 211, {"hb_read"}))
    @@ ("hb_read" :> Stmt("read", "status", 212, {"hb_release"}))
    @@ ("hb_release" :> Stmt("release", "lock", 218, {"hb_send"}))
    @@ ("hb_send" :> Stmt("net", "telegram", 219, {"hb_sleep"}))

\* service: the Flask thread serving home() and status().
ServiceFlask ==
    ("serve" :> Stmt("local", "request", 228, {"home_acquire", "status_acquire"}))
    @@ ("home_acquire" :> Stmt("acquire", "lock", 54, {"home_read"}))
    @@ ("home_read" :> Stmt("read", "status", 55, {"home_release"}))
    @@ ("home_release" :> Stmt("release", "lock", 60, {"serve"}))
    @@ ("status_acquire" :> Stmt("acquire", "lock", 64, {"status_read"}))
    @@ ("status_read" :> Stmt("read", "status", 65, {"status_release"}))
    @@ ("status_release" :> Stmt("release", "lock", 71, {"serve"}))

\* The code of every thread of a script, and the label each thread starts
\* at ("idle": not started).
Programs ==
    [crypto |-> [main |-> CryptoLoad @@ CryptoEntry @@ CryptoCheck @@ CryptoSave
                          @@ CryptoSleep,
                 flask |-> CryptoFlask,
                 heartbeat |-> CryptoHeartbeat,
                 signal |-> handle_sigterm],
     service |-> [main |-> ServiceEntry,
                  flask |-> ServiceFlask,
                  monitor |-> refresh_symbols @@ ServiceLoop @@ analyze_symbol_tf,
                  heartbeat |-> heartbeat_worker]]

Entries ==
    [crypto |-> [main |-> "load_cfg", flask |-> "serve", heartbeat |-> "hb_send",
                 signal |-> "sig_cfg"],
     service |-> [main |-> "start_flask", flask |-> "serve", monitor |-> "refresh",
                  heartbeat |-> "hb_sleep"]]

Script == IF prog = "crypto threads" THEN "crypto" ELSE "service"

\* The statement thread th is about to execute.
Current(th) == Programs[Script][th][pc[th]]

\* The main thread is inside the signal handler: its own code waits until
\* the handler returns.
Interrupted(th) ==
    th = "main" /\ "signal" \in DOMAIN pc /\ pc["signal"] # "idle"

\* Thread th can execute a statement whose op is in ops.
At(th, ops) ==
    /\ prog \in {"crypto threads", "service threads"}
    /\ th \in DOMAIN pc
    /\ pc[th] \in DOMAIN Programs[Script][th]
    /\ Current(th).op \in ops
    /\ ~Interrupted(th)

\* History of a run of the crypto threads: the calls of
\* load_state_from_gist that have returned and the calls of check_changes
\* that have begun.
ThreadHist(h, th, label, next) ==
    [loads |-> IF prog = "crypto threads" /\ th = "main"
                  /\ label \in DOMAIN CryptoLoad /\ next \notin DOMAIN CryptoLoad
               THEN h.loads + 1 ELSE h.loads,
     cycles |-> IF prog = "crypto threads" /\ th = "main" /\ label = "tickers"
                THEN h.cycles + 1 ELSE h.cycles]

\* Thread th goes on to one of the successors of its statement.
Goto(th) ==
    \E next \in Current(th).next :
      /\ pc' = [pc EXCEPT ![th] = next]
      /\ hist' = ThreadHist(hist, th, pc[th], next)

ThreadFrame ==
    UNCHANGED <<prog, config, now, inp, sink, pos, flaskVars, svcVars, cryptoVars, gap>>

\* "with _state_lock:" is entered: the thread waits until the lock is free.
Acquire ==
    \E th \in DOMAIN pc :
      /\ At(th, {"acquire"})
      /\ lock = "free"
      /\ lock' = th
      /\ Goto(th)
      /\ ThreadFrame

\* The "with" block is left.
Release ==
    \E th \in DOMAIN pc :
      /\ At(th, {"release"})
      /\ lock' = "free"
      /\ Goto(th)
      /\ ThreadFrame

\* A read or write of shared state.
Touch ==
    \E th \in DOMAIN pc :
      /\ At(th, {"read", "write"})
      /\ Goto(th)
      /\ UNCHANGED lock
      /\ ThreadFrame

\* A network call: the exchange, Telegram or the Gist.  The first call of
\* check_changes begins a cycle.
NetCall ==
    \E th \in DOMAIN pc :
      /\ At(th, {"net"})
      /\ (prog = "crypto threads" /\ th = "main" /\ pc[th] = "tickers")
           => hist.cycles < ThreadCycles
      /\ Goto(th)
      /\ UNCHANGED lock
      /\ ThreadFrame

\* Local work or a sleep.
Pass ==
    \E th \in DOMAIN pc :
      /\ At(th, {"local", "sleep"})
      /\ Goto(th)
      /\ UNCHANGED lock
      /\ ThreadFrame

\* threading.Thread(...).start()
StartThread ==
    \E th \in DOMAIN pc :
      /\ At(th, {"start"})
      /\ \E next \in Current(th).next :
           pc' = [pc EXCEPT ![th] = next,
                            ![Current(th).obj] = Entries[Script][Current(th).obj]]
      /\ UNCHANGED <<lock, hist>>
      /\ ThreadFrame

InitThreads ==
    /\ prog \in {"crypto threads", "service threads"}
    /\ config = EmptyDict
    /\ now = 0
    /\ inp = "none"
    /\ sink = <<>>
    /\ pos = 0
    /\ FlaskIdle
    /\ SvcIdle
    /\ CryptoIdle
    /\ hist = [loads |-> 0, cycles |-> 0]
    /\ gap = -1
    /\ pc = [th \in DOMAIN Entries[Script] |->
                IF th = "main" THEN Entries[Script][th] ELSE "idle"]
    /\ lock = "free"

NextThreads == Acquire \/ Release \/ Touch \/ NetCall \/ Pass \/ StartThread

SpecThreads == InitThreads /\ [][NextThreads]_vars

\* SIGTERM or SIGINT arrives while the main thread is anywhere in its code:
\* the handler starts.
Signal ==
    /\ prog = "crypto threads"
    /\ "signals" \in DOMAIN config
    /\ pc["signal"] = "idle"
    /\ pc["main"] \in DOMAIN Programs[Script]["main"]
    /\ pc' = [pc EXCEPT !["signal"] = Entries[Script]["signal"]]
    /\ UNCHANGED <<lock, hist>>
    /\ ThreadFrame

\* os._exit(0): every thread ends.
Exit ==
    /\ At("signal", {"exit"})
    /\ pc' = [th \in DOMAIN pc |-> "exited"]
    /\ UNCHANGED <<lock, hist>>
    /\ ThreadFrame

\* The crypto threads with a termination signal that can arrive at any time.
InitSignal ==
    /\ prog = "crypto threads"
    /\ config = [signals |-> TRUE]
    /\ now = 0
    /\ inp = "none"
    /\ sink = <<>>
    /\ pos = 0
    /\ FlaskIdle
    /\ SvcIdle
    /\ CryptoIdle
    /\ hist = [loads |-> 0, cycles |-> 0]
    /\ gap = -1
    /\ pc = [th \in DOMAIN Entries[Script] |->
                IF th = "main" THEN Entries[Script][th] ELSE "idle"]
    /\ lock = "free"

NextSignal == NextThreads \/ Signal \/ Exit

SpecSignal == InitSignal /\ [][NextSignal]_vars

(***************************************************************************)
(* The indicators as functions (prog = "indicators"): one series of small  *)
(* numbers, read as closes or as volumes, and one period or lookback are   *)
(* drawn in Init and one step applies every indicator to them.             *)
(***************************************************************************)
\* Longest series, largest sample and largest period that are explored.
SeriesLen == 6
MaxSample == 3
MaxPeriod == 3

IndicatorInputs ==
    [series : UNION {[1..n -> 0..MaxSample] : n \in 0..SeriesLen},
     period : 1..MaxPeriod]

\* vol_ratio of estimate_risk_profile; volumes[-1] of an empty list raises
\* (the outcome <<"IndexError">>, which equals no ratio).
RiskVolRatio(volumes) ==
    IF volumes = <<>> THEN <<"IndexError">>
    ELSE VolRatio(LastOf(volumes),
                  IF Len(volumes) >= 6
                  THEN Mean(SubSeq(volumes, Len(volumes) - 5, Len(volumes) - 1))
                  ELSE IF Len(volumes) > 1
                  THEN Mean(SubSeq(volumes, 1, Len(volumes) - 1))
                  ELSE RInt(LastOf(volumes)))

\* One call of each indicator on the series.
IndicatorsApply ==
    /\ prog = "indicators"
    /\ pos = 0
    /\ pos' = 1
    /\ ret' = [rsi      |-> compute_rsi(config.series, config.period),
               breakout |-> breakout_score(config.series, config.period),
               spike    |-> detect_volume_spike(config.series, VOLUME_SPIKE_MULTIPLIER),
               tier     |-> estimate_volatility_tier(config.series, config.series),
               risk     |-> RiskVolRatio(config.series),
               candle   |-> VolRatio(LastVol(config.series), BaselineVol(config.series))]
    /\ UNCHANGED <<prog, config, threadVars, now, inp, sink, flaskVars, previous_prices,
                   loopVars, histVars, cryptoVars>>

InitIndicators ==
    /\ prog = "indicators"
    /\ config \in IndicatorInputs
    /\ now = StartTime
    /\ inp = "none"
    /\ sink = <<>>
    /\ pos = 0
    /\ FlaskIdle
    /\ SvcIdle
    /\ HistIdle
    /\ ThreadsIdle
    /\ CryptoIdle

NextIndicators == IndicatorsApply

SpecIndicators == InitIndicators /\ [][NextIndicators]_vars

(***************************************************************************)
(* Every script.                                                           *)
(***************************************************************************)
Init ==
    InitFlask \/ InitService \/ InitAll \/ InitCrypto \/ InitScore \/ InitReport

Next ==
    \/ FlaskEvaluate
    \/ FlaskEndCycle
    \/ ServiceBeginCycle
    \/ ServiceAnalyze
    \/ ServiceEndCycle
    \/ AllBeginCycle
    \/ AllAnalyze
    \/ AllEndCycle
    \/ CryptoCycle
    \/ ScoreApply
    \/ ReportRun
    \/ Tick

Spec == Init /\ [][Next]_vars

(***************************************************************************)
(* Properties.                                                             *)
(***************************************************************************)
\* The step is the evaluation of FlaskKeys[i] by the alert loop.
FlaskEval(i) == prog = "flask" /\ pos = i /\ pos' = i + 1

\* msgs holds an alert for key.
Dispatched(msgs, key) ==
    \E j \in DOMAIN msgs : msgs[j].kind = "alert" /\ msgs[j].key = key

\* C1: two alert dispatches for the same (symbol, timeframe) key are never
\* less than COOLDOWN_SECONDS apart: whenever an alert goes out for a key
\* that had one before, at least COOLDOWN_SECONDS passed since that one.
C1_DispatchesApart == gap = -1 \/ gap >= COOLDOWN_SECONDS

\* A second alert for a key goes out exactly COOLDOWN_SECONDS after the
\* previous one.
C1_Witness ==
    /\ prog = "flask"
    /\ sink # <<>>
    /\ gap = COOLDOWN_SECONDS

\* The step is a pass of the crypto loop.
CryptoPass == prog = "crypto" /\ pos' = pos + 1

\* The pass observes symbol x for the first time: the ticker list holds a
\* positive price for it and last_prices has no entry for it.
CryptoFirstSeen(x) ==
    /\ x \notin DOMAIN last_prices
    /\ inp'.tickers[x] \in DOMAIN Coins
    /\ Coins[inp'.tickers[x]].price > 0

\* C2: the first successful observation of a key only seeds its baseline and
\* dispatches nothing for it.  Flask: an evaluation that fetched candles, in
\* the first cycle or of a key absent from last_prices, sends no message,
\* stores the newest close and records no alert time.  Crypto: a pass that
\* finds a positive price for a symbol absent from last_prices sends no
\* message for that symbol, stores the price in all three windows with the
\* time of the pass and records no alert for the symbol.
C2_FirstObservationSeeds ==
    [][/\ \A i \in 1..Len(FlaskKeys) :
            (/\ FlaskEval(i)
             /\ inp' \in CandleNames
             /\ (first \/ FlaskKeys[i] \notin DOMAIN last_prices))
            => /\ sink' = <<>>
               /\ last_prices' = Put(last_prices, FlaskKeys[i], LastOf(Candles[inp'].closes))
               /\ UNCHANGED flaskAlertVars
       /\ \A i \in DOMAIN CryptoSymbols :
            (CryptoPass /\ CryptoFirstSeen(CryptoSymbols[i]))
            => /\ ~Dispatched(sink', CryptoSymbols[i])
               /\ CryptoSymbols[i] \in DOMAIN last_prices'
               /\ \A w \in {"1m", "2m", "5m"} :
                    last_prices'[CryptoSymbols[i]][w] =
                        [price |-> Coins[inp'.tickers[CryptoSymbols[i]]].price, ts |-> now]
               /\ CryptoSymbols[i] \notin DOMAIN last_alerts']_vars

\* After the first cycle, a key that has no baseline yet is fetched with a
\* price jump and a volume spike: nothing is sent, the close becomes the
\* baseline and no alert time is recorded.
C2_Witness ==
    /\ prog = "flask"
    /\ ~first
    /\ pos > 1
    /\ inp = "jumpspike"
    /\ sink = <<>>
    /\ FlaskKeys[pos - 1] \in DOMAIN last_prices
    /\ last_prices[FlaskKeys[pos - 1]] = 112
    /\ FlaskKeys[pos - 1] \notin DOMAIN last_alert_time

\* A crypto pass seeds a symbol while it sends an alert for the other one.
C2_WitnessCrypto ==
    /\ prog = "crypto"
    /\ pos > 0
    /\ {"BTCUSDT", "ETHUSDT"} \subseteq DOMAIN last_prices
    /\ last_prices["ETHUSDT"]["5m"].ts = now - CHECK_INTERVAL
    /\ last_prices["BTCUSDT"]["5m"].ts < now - CHECK_INTERVAL
    /\ inp.tickers["ETHUSDT"] = "c106"
    /\ Dispatched(sink, "BTCUSDT")

\* C5: cooldowns are tracked per alert type: when the volume condition of a
\* seeded key holds and no volume-spike alert went out for the key within
\* COOLDOWN_SECONDS, a volume-spike alert goes out even if a price-move
\* alert did within the cooldown; and likewise with the types exchanged.
C5_PerTypeCooldown ==
    [][\A i \in 1..Len(FlaskKeys) :
        LET key == FlaskKeys[i]
            h == Get(hist, key, NoDispatch)
        IN  (FlaskEval(i) /\ inp' \in CandleNames /\ key \in DOMAIN last_prices)
            => LET price == LastOf(Candles[inp'].closes)
                   vols == Candles[inp'].vols
                   variation == Variation(price, last_prices[key])
                   threshold == Get(config.THRESHOLDS, key[2], RInt(5))
               IN  /\ (AlertVolume(key[1], price, vols)
                       /\ (h.volume = 0 \/ now - h.volume >= COOLDOWN_SECONDS))
                      => (Dispatched(sink', key) /\ sink'[1].volume)
                   /\ (AlertPriceMove(variation, threshold)
                       /\ (h.move = 0 \/ now - h.move >= COOLDOWN_SECONDS))
                      => Dispatched(sink', key)]_vars

\* C7: in an evaluation of a seeded key whose candles were fetched, if the
\* price-move or the volume condition holds and either no alert is recorded
\* for the key or at least COOLDOWN_SECONDS passed since
\* last_alert_time[key], an alert for the key is dispatched in that very
\* evaluation.
C7_DispatchWhenDue ==
    [][\A i \in 1..Len(FlaskKeys) :
        LET key == FlaskKeys[i]
        IN  (FlaskEval(i) /\ inp' \in CandleNames /\ key \in DOMAIN last_prices)
            => LET price == LastOf(Candles[inp'].closes)
                   vols == Candles[inp'].vols
                   variation == Variation(price, last_prices[key])
                   threshold == Get(config.THRESHOLDS, key[2], RInt(5))
               IN  ((AlertPriceMove(variation, threshold)
                        \/ AlertVolume(key[1], price, vols))
                    /\ (key \notin DOMAIN last_alert_time
                        \/ now - last_alert_time[key] >= COOLDOWN_SECONDS))
                   => Dispatched(sink', key)]_vars

\* A volume-spike alert without a price move goes out for a key at the first
\* moment the cooldown armed by its price-move alert allows it.
C7_Witness ==
    /\ prog = "flask"
    /\ pos > 1
    /\ Dispatched(sink, FlaskKeys[pos - 1])
    /\ sink[1].volume
    /\ sink[1].variation = RInt(0)
    /\ sink[1].ts - COOLDOWN_SECONDS = Get(hist, FlaskKeys[pos - 1], NoDispatch).move

\* The step is a call of analyze_symbol_tf (service) / analyze_variation
\* (all) for the task at pos.
ServiceStep == prog = "service" /\ pos >= 1 /\ pos' = pos + 1

AllStep == prog = "all" /\ pos >= 1 /\ pos' = pos + 1

ServiceKey ==
    LET task == ServiceTasks(symbols_list, cycle, config)[pos]
    IN  <<task[1], task[2]>>

AllKey ==
    LET task == AllTasks(symbols_list, cycle)[pos]
    IN  <<task[1], task[2]>>

\* C3: the first observation of a key never produces an alert, whatever the
\* threshold (0 included): a call of analyze_symbol_tf or analyze_variation
\* that fetches a price for a key without a baseline sends nothing.
C3_FirstObservationSilent ==
    [][/\ (ServiceStep /\ inp' \in DOMAIN Quotes
              /\ ServiceKey \notin DOMAIN previous_prices) => sink' = <<>>
       /\ (AllStep /\ inp' \in DOMAIN Quotes
              /\ AllKey \notin DOMAIN previous_prices) => sink' = <<>>]_vars

\* C4: for a key that has a baseline, the variation is computed from the
\* baseline the previous successful evaluation of the key left, and the
\* baseline becomes the current price only after that read: the alert
\* decision and the variation in the message are those of the old baseline,
\* never those of the current price compared with itself.
C4_VariationFromPreviousBaseline ==
    [][/\ \A i \in 1..Len(FlaskKeys) :
            LET key == FlaskKeys[i]
            IN  (FlaskEval(i) /\ inp' \in CandleNames /\ key \in DOMAIN last_prices)
                => LET price == LastOf(Candles[inp'].closes)
                       old == last_prices[key]
                       v == Rat((price - old) * 100, old)
                       threshold == Get(config.THRESHOLDS, key[2], RInt(5))
                   IN  /\ last_prices'[key] = price
                       /\ Dispatched(sink', key) => sink'[1].variation = v
                       /\ (RLe(threshold, RAbs(v))
                           /\ now - Get(last_alert_time, key, 0) >= COOLDOWN_SECONDS)
                          => Dispatched(sink', key)
       /\ (ServiceStep /\ inp' \in DOMAIN Quotes
              /\ ServiceKey \in DOMAIN previous_prices)
          => LET price == Quotes[inp']
                 old == previous_prices[ServiceKey]
                 v == Rat((price - old) * 100, old)
                 threshold == ServiceTasks(symbols_list, cycle, config)[pos][3]
             IN  /\ previous_prices'[ServiceKey] = price
                 /\ Dispatched(sink', ServiceKey) <=> RLe(threshold, RAbs(v))
                 /\ Dispatched(sink', ServiceKey) => sink'[1].variation = v
       /\ (AllStep /\ inp' \in DOMAIN Quotes
              /\ AllKey \in DOMAIN previous_prices)
          => LET price == Quotes[inp']
                 old == previous_prices[AllKey]
                 v == Rat((price - old) * 100, old)
                 threshold == AllTasks(symbols_list, cycle)[pos][3]
             IN  /\ previous_prices'[AllKey] = price
                 /\ Dispatched(sink', AllKey) <=> RLe(threshold, RAbs(v))
                 /\ Dispatched(sink', AllKey) => sink'[1].variation = v]_vars

\* The flask loop reports a move from the old baseline 100 to 112 as +12% and
\* then holds 112 as the baseline.
C4_Witness ==
    /\ prog = "flask"
    /\ pos > 1
    /\ Dispatched(sink, FlaskKeys[pos - 1])
    /\ sink[1].variation = RInt(12)
    /\ last_prices[FlaskKeys[pos - 1]] = 112

\* C6: a failed Telegram send changes nothing of the state transition: after
\* an evaluation that fires, the cooldown timestamp and the baseline of the
\* key are those of the observation whether the send succeeded or not, and
\* the observation was handed to Telegram exactly once.
C6_SendFailureIgnored ==
    \A j \in DOMAIN sink :
        (prog \in {"flask", "service"} /\ sink[j].kind = "alert")
        => /\ Len(sink) = 1
           /\ prog = "flask"
              => /\ sink[j].key \in DOMAIN last_alert_time
                 /\ last_alert_time[sink[j].key] = sink[j].ts
                 /\ last_prices[sink[j].key] = sink[j].price
           /\ prog = "service"
              => /\ previous_prices[sink[j].key] = sink[j].price
                 /\ ret # None
                 /\ ret.sent = sink[j].sent

\* An alert of the flask loop whose send failed, with the cooldown armed.
C6_Witness ==
    /\ prog = "flask"
    /\ sink # <<>>
    /\ sink[1].kind = "alert"
    /\ ~sink[1].sent
    /\ last_alert_time[sink[1].key] = now

\* C8: a failed or empty fetch for a (symbol, timeframe) pair produces no
\* alert in that evaluation and leaves the baseline and the cooldown
\* timestamps as they were.
C8_FetchFailureSkips ==
    [][/\ \A i \in 1..Len(FlaskKeys) :
            (FlaskEval(i) /\ inp' = "fail")
            => /\ sink' = <<>>
               /\ UNCHANGED <<last_prices, last_alert_time, last_volume_alert_time>>
       /\ (ServiceStep /\ inp' = "fail")
          => /\ sink' = <<>>
             /\ UNCHANGED previous_prices]_vars

\* A fetch fails for a key of the flask loop that has a baseline and an
\* armed cooldown.
C8_Witness ==
    /\ prog = "flask"
    /\ inp = "fail"
    /\ pos > 1
    /\ FlaskKeys[pos - 1] \in DOMAIN last_prices
    /\ FlaskKeys[pos - 1] \in DOMAIN last_alert_time

C10_ReportEntries ==
    (prog = "report" /\ pos = 1)
    => LET E == IF sink = <<>> THEN <<>> ELSE sink[1].entries
           syms == {config.symbols[i] : i \in DOMAIN config.symbols}
           Q == {x \in syms : /\ config.market[x] # "fail"
                              /\ ReportScore[config.market[x]].score >= REPORT_SCORE_MIN}
           listed == {E[i].symbol : i \in DOMAIN E}
       IN  /\ \A i \in DOMAIN E :
                /\ E[i].symbol \in Q
                /\ E[i].score = ReportScore[config.market[E[i].symbol]].score
           /\ \A i, j \in DOMAIN E : i < j => E[i].score >= E[j].score
           /\ \A i, j \in DOMAIN E : i # j => E[i].symbol # E[j].symbol
           /\ \A x \in Q \ listed : \A i \in DOMAIN E :
                E[i].score >= ReportScore[config.market[x]].score
           /\ Len(E) = Min(Cardinality(Q), REPORT_MAX_ITEMS)

\* Three candidates scoring 39, 73 and 86 with REPORT_SCORE_MIN = 70: the
\* report lists exactly the entries [86, 73].
C10_Witness ==
    /\ prog = "report"
    /\ pos = 1
    /\ config.market["BTC/USDT"] = "flat"
    /\ config.market["ETH/USDT"] = "jump"
    /\ config.market["SOL/USDT"] = "jumpspike"
    /\ sink # <<>>
    /\ [i \in DOMAIN sink[1].entries |-> sink[1].entries[i].score] = <<86, 73>>
    /\ [i \in DOMAIN sink[1].entries |-> sink[1].entries[i].symbol]
         = <<"SOL/USDT", "ETH/USDT">>

\* C11: every run of build_and_send_wyckoff_report hands exactly one
\* aggregated message to Telegram, never one message per symbol, whatever the
\* number of qualifying symbols.
C11_OneAggregatedMessage ==
    (prog = "report" /\ pos = 1)
    => /\ Len(sink) = 1
       /\ sink[1].kind = "report"

\* C12: one evaluation of a seeded, non-cooling key whose variation reaches
\* the threshold hands exactly one alert to Telegram, with or without a
\* volume spike in the same candles; an evaluation of the key before
\* COOLDOWN_SECONDS have passed since that alert (the same candles one second
\* later included) hands none.
C12_OneAlertThenSilence ==
    [][\A i \in 1..Len(FlaskKeys) :
        LET key == FlaskKeys[i]
        IN  (FlaskEval(i) /\ inp' \in CandleNames /\ ~first /\ key \in DOMAIN last_prices)
            => LET price == LastOf(Candles[inp'].closes)
                   variation == Variation(price, last_prices[key])
                   threshold == Get(config.THRESHOLDS, key[2], RInt(5))
                   cooling == /\ key \in DOMAIN last_alert_time
                              /\ now - last_alert_time[key] < COOLDOWN_SECONDS
               IN  /\ (AlertPriceMove(variation, threshold) /\ ~cooling)
                      => /\ Len(sink') = 1
                         /\ sink'[1].kind = "alert"
                         /\ sink'[1].key = key
                         /\ sink'[1].variation = variation
                         /\ sink'[1].volume = AlertVolume(key[1], price, Candles[inp'].vols)
                   /\ cooling => sink' = <<>>]_vars

\* The candles that raised a price-move and volume alert for a key (a close
\* of 112 with a volume spike) are evaluated again at the same clock reading:
\* nothing is sent.
C12_Witness ==
    /\ prog = "flask"
    /\ pos > 1
    /\ inp = "jumpspike"
    /\ sink = <<>>
    /\ FlaskKeys[pos - 1] \in DOMAIN hist
    /\ hist[FlaskKeys[pos - 1]].move = now
    /\ hist[FlaskKeys[pos - 1]].volume = now
    /\ last_alert_time[FlaskKeys[pos - 1]] = now
    /\ last_prices[FlaskKeys[pos - 1]] = 112

\* C13: an alert condition suppressed by the cooldown is dropped, not
\* deferred.  A suppressed evaluation sends nothing and changes nothing but
\* the baseline of its key (no queue, no pending mark); and every alert that
\* goes out, after a cooldown has elapsed or otherwise, goes out in an
\* evaluation whose own candles meet the price-move or the volume condition
\* against the baseline the key holds at that moment.
C13_SuppressedIsDropped ==
    [][\A i \in 1..Len(FlaskKeys) :
        LET key == FlaskKeys[i]
            threshold == Get(config.THRESHOLDS, key[2], RInt(5))
        IN  FlaskEval(i)
            => /\ Dispatched(sink', key)
                  => /\ inp' \in CandleNames
                     /\ key \in DOMAIN last_prices
                     /\ \/ RLe(threshold,
                               RAbs(Rat((LastOf(Candles[inp'].closes) - last_prices[key]) * 100,
                                        last_prices[key])))
                        \/ AlertVolume(key[1], LastOf(Candles[inp'].closes),
                                       Candles[inp'].vols)
               /\ (/\ inp' \in CandleNames
                   /\ ~first
                   /\ key \in DOMAIN last_prices
                   /\ \/ RLe(threshold,
                             RAbs(Rat((LastOf(Candles[inp'].closes) - last_prices[key]) * 100,
                                      last_prices[key])))
                      \/ AlertVolume(key[1], LastOf(Candles[inp'].closes),
                                     Candles[inp'].vols)
                   /\ now - Get(last_alert_time, key, 0) < COOLDOWN_SECONDS)
                  => /\ sink' = <<>>
                     /\ last_prices' = Put(last_prices, key, LastOf(Candles[inp'].closes))
                     /\ UNCHANGED <<flaskAlertVars, flaskLoopVars>>]_vars

\* A condition of a key was suppressed after its last alert, and an
\* evaluation of the key after the cooldown elapsed, whose candles meet no
\* condition against the current baseline, has just sent nothing.
C13_Witness ==
    /\ prog = "flask"
    /\ pos > 1
    /\ inp \in CandleNames
    /\ sink = <<>>
    /\ FlaskKeys[pos - 1] \in DOMAIN last_alert_time
    /\ now - last_alert_time[FlaskKeys[pos - 1]] >= COOLDOWN_SECONDS
    /\ FlaskKeys[pos - 1] \in DOMAIN hist
    /\ hist[FlaskKeys[pos - 1]].dropped = "lapsed"


\* C14: in a pass of the crypto loop every dispatched alert of a kind that
\* has a cooldown (vol_spike, rsi_high, rsi_low, breakout, ema_up, ema_down)
\* comes more than that kind's cooldown after the previous dispatched alert
\* of the same kind for the same symbol, and one pass dispatches at most one
\* alert of a kind for a symbol.
C14_KindCooldown ==
    [][CryptoPass =>
         \A j \in DOMAIN sink' :
           KindOf(sink'[j].type) \in DOMAIN KindCooldown =>
             /\ \A i \in DOMAIN sink' :
                  (sink'[i].key = sink'[j].key
                   /\ KindOf(sink'[i].type) = KindOf(sink'[j].type)) => i = j
             /\ <<sink'[j].key, KindOf(sink'[j].type)>> \in DOMAIN hist =>
                  sink'[j].ts - hist[<<sink'[j].key, KindOf(sink'[j].type)>>].at
                    > KindCooldown[KindOf(sink'[j].type)]]_vars

\* C14 witness: an alert of some kind was dispatched, a later pass found the
\* condition true inside the cooldown and sent nothing, and a pass after the
\* cooldown dispatched the kind again.
C14_Witness ==
    /\ prog = "crypto"
    /\ \E key \in DOMAIN hist :
         /\ key[2] \in DOMAIN KindCooldown
         /\ hist[key].again
         /\ KindSent(sink, key[1], key[2])


\* The ticker entry of symbol x in the pass being taken is evaluated against
\* an existing rolling window: x is known, its entry has a price and a
\* volume, and last_volumes[x]["rolling"] is not empty.
RollingTested(x) ==
    /\ x \in DOMAIN last_prices
    /\ inp'.tickers[x] \in DOMAIN Coins
    /\ Coins[inp'.tickers[x]].price > 0
    /\ Coins[inp'.tickers[x]].vol # 0
    /\ x \in DOMAIN last_volumes
    /\ last_volumes[x].rolling # <<>>

\* The samples of a sequence that precede its newest one.
Preceding(volumes) == SubSeq(volumes, 1, Len(volumes) - 1)

\* C15: in a pass of the crypto loop the baseline of the rolling-volume test
\* of a symbol is the mean of the samples that were in the window before the
\* newest sample arrived, and the baseline of a candidate's candle volume
\* ratio is the mean of at most five candles that precede the newest candle.
C15_BaselineExcludesNewest ==
    [][CryptoPass =>
         /\ \A x \in DOMAIN inp'.tickers :
              RollingTested(x) =>
                RollingBaseline(last_volumes[x].rolling, Coins[inp'.tickers[x]].vol)
                  = Mean(last_volumes[x].rolling)
         /\ \A x \in DOMAIN inp'.klines :
              inp'.klines[x] # "fail" =>
                BaselineVol(Klines[inp'.klines[x]].volumes)
                  = Mean(LastN(Preceding(Klines[inp'.klines[x]].volumes), 5))]_vars


\* The samples a pass appends to the rolling window of symbol x, in the
\* order of arrival: the ticker volume, then the newest candle volume if x
\* was a candidate whose klines arrived.
TickerSample(x) ==
    IF /\ x \in DOMAIN inp'.tickers
       /\ inp'.tickers[x] \in DOMAIN Coins
       /\ Coins[inp'.tickers[x]].price > 0
       /\ Coins[inp'.tickers[x]].vol # 0
       /\ (x \in DOMAIN last_prices \/ x \notin DOMAIN last_volumes)
    THEN <<Coins[inp'.tickers[x]].vol>>
    ELSE <<>>

CandleSample(x) ==
    IF x \in DOMAIN inp'.klines /\ inp'.klines[x] # "fail"
    THEN <<LastVol(Klines[inp'.klines[x]].volumes)>>
    ELSE <<>>

Rolling(volumes, x) == IF x \in DOMAIN volumes THEN volumes[x].rolling ELSE <<>>

\* C16: after every pass of the crypto loop the rolling window of every
\* symbol holds at most 100 samples, and it is the window of before followed
\* by the samples of the pass in arrival order, less the oldest samples in
\* excess of 100: a sample appended to a full window evicts exactly the
\* oldest one.
C16_RollingWindow ==
    [][CryptoPass =>
         \A x \in DOMAIN last_volumes' :
           /\ Len(last_volumes'[x].rolling) <= ROLLING_CAP
           /\ last_volumes'[x].rolling
                = LastN(Rolling(last_volumes, x) \o TickerSample(x) \o CandleSample(x),
                        ROLLING_CAP)
           /\ (Len(Rolling(last_volumes, x)) = ROLLING_CAP
               /\ Len(TickerSample(x) \o CandleSample(x)) = 1) =>
                 last_volumes'[x].rolling
                   = Tail(Rolling(last_volumes, x)) \o TickerSample(x) \o CandleSample(x)]_vars

\* C16 witness: a full window to which samples were appended: it still holds
\* 100 samples, the three oldest are gone and the newest is a candle volume.
C16_Witness ==
    /\ prog = "crypto"
    /\ pos > 0
    /\ CryptoSymbols[1] \in DOMAIN last_volumes
    /\ Len(last_volumes[CryptoSymbols[1]].rolling) = ROLLING_CAP
    /\ last_volumes[CryptoSymbols[1]].rolling[1] = 4
    /\ last_volumes[CryptoSymbols[1]].rolling[ROLLING_CAP] = 3000
    /\ CryptoSymbols[1] \in DOMAIN inp.klines
    /\ inp.klines[CryptoSymbols[1]] = "kvol"


\* C17: no step removes an entry of an alert-timestamp map or makes its
\* timestamp older: every last_alerts[symbol][slot] of the crypto script and
\* every last_alert_time[key] of the flask script is still there after the
\* step, with the same or a newer timestamp.
C17_StampsAreKept ==
    [][/\ prog = "crypto" =>
            \A x \in DOMAIN last_alerts :
              /\ x \in DOMAIN last_alerts'
              /\ \A slot \in DOMAIN last_alerts[x] :
                   /\ slot \in DOMAIN last_alerts'[x]
                   /\ last_alerts'[x][slot] >= last_alerts[x][slot]
       /\ prog = "flask" =>
            \A key \in DOMAIN last_alert_time :
              /\ key \in DOMAIN last_alert_time'
              /\ last_alert_time'[key] >= last_alert_time[key]]_vars


\* Thread th executes the statement it is at.
Executes(th) == th \in DOMAIN pc /\ pc'[th] # pc[th] /\ pc[th] # "idle"

\* C18: every read and every write of the shared state maps is made by a
\* thread that holds _state_lock.
C18_MapsUnderLock ==
    [][\A th \in DOMAIN pc :
         (Executes(th) /\ Current(th).op \in {"read", "write"}
          /\ Current(th).obj = "maps") => lock = th]_vars

\* C19: no thread makes a network call while it holds _state_lock.
C19_NoNetworkUnderLock ==
    [][\A th \in DOMAIN pc :
         (Executes(th) /\ Current(th).op = "net") => lock # th]_vars

\* C19 witness: a thread has read shared state under the lock, has released
\* the lock and is about to make its network call, while another thread
\* holds the lock.
C19_Witness ==
    /\ prog = "service threads"
    /\ pc["heartbeat"] = "hb_send"
    /\ lock = "flask"
    /\ pc["monitor"] = "send"

\* C20: in the crypto script a call of check_changes begins only after
\* load_state_from_gist has returned, and load_state_from_gist never
\* returns, nor is it inside its body, once a call of check_changes has
\* begun.
C20_RestoreBeforeCycles ==
    [][prog = "crypto threads" =>
         /\ hist'.cycles > hist.cycles =>
              (hist.loads = 1 /\ pc["main"] \notin DOMAIN CryptoLoad)
         /\ hist.cycles > 0 =>
              (hist'.loads = hist.loads
               /\ pc["main"] \notin DOMAIN CryptoLoad
               /\ pc'["main"] \notin DOMAIN CryptoLoad)]_vars

\* C20 witness: the state was restored from the Gist, both threads were
\* started and the second check_changes is running.
C20_Witness ==
    /\ prog = "crypto threads"
    /\ hist.loads = 1
    /\ hist.cycles = 2
    /\ pc["main"] = "candidate"
    /\ pc["heartbeat"] # "idle"
    /\ pc["flask"] # "idle"


\* A configuration the engine must refuse: a text that is not a number, a
\* negative threshold, or a check interval that is zero or negative.
InvalidEnv(env) ==
    \/ ~Parses(env)
    \/ Numbers[env.PRICE_CHANGE_THRESHOLD] < 0
    \/ Numbers[env.CHECK_INTERVAL] <= 0

\* C21: when the crypto script is started with an invalid threshold or
\* period value in its environment, no pass of the monitor loop ever runs.
C21_InvalidConfigNeverRuns ==
    (prog \in {"crypto start", "crypto", "crashed"} /\ "env" \in DOMAIN config
     /\ InvalidEnv(config.env)) => pos = 0


\* C22: an evaluation whose fetch failed sends nothing, leaves every map and
\* every loop variable as it was and hands over to the next task of the same
\* cycle, in the flask loop, in monitor_service and in monitor_bybit_all.
C22_FailedFetchSkipsOne ==
    [][/\ (prog = "flask" /\ pos \in 1..Len(FlaskKeys) /\ pos' # pos /\ inp' = "fail")
          => /\ pos' = pos + 1
             /\ sink' = <<>>
             /\ UNCHANGED <<last_prices, flaskAlertVars, flaskLoopVars>>
       /\ (prog = "service" /\ pos \in 1..Len(ServiceTasks(symbols_list, cycle, config))
           /\ pos' # pos /\ inp' = "fail")
          => /\ pos' = pos + 1
             /\ sink' = <<>>
             /\ UNCHANGED <<previous_prices, loopVars>>
       /\ (prog = "all" /\ pos \in 1..Len(AllTasks(symbols_list, cycle))
           /\ pos' # pos /\ inp' = "fail")
          => /\ pos' = pos + 1
             /\ sink' = <<>>
             /\ UNCHANGED <<previous_prices, loopVars>>]_vars

\* C22 witness: every fetch of the first key failed, in the first cycle and
\* in this one, and the second key of this cycle was evaluated and alerted.
C22_Witness ==
    /\ prog = "flask"
    /\ ~first
    /\ pos = 3
    /\ FlaskKeys[1] \notin DOMAIN last_prices
    /\ FlaskKeys[2] \in DOMAIN last_prices
    /\ sink # <<>>
    /\ sink[1].kind = "alert"
    /\ sink[1].key = FlaskKeys[2]


\* The volumes of the scenario: ten candles of 10 and a newest one of 1500.
ScenarioVolumes == [i \in 1..11 |-> IF i < 11 THEN 10 ELSE 1500]

\* The reasons of message m name a volume spike of the given ratio.
HasVolSpikeReason(m, ratio) ==
    \E i \in DOMAIN m.reasons : m.reasons[i] = <<"Vol spike", ratio>>

\* C23: when the newest volume is at least VOLUME_SPIKE_MULTIPLIER times the
\* mean of the five before it and the price is flat, the flask loop sends a
\* volume-spike alert for a seeded key that is not cooling down, with the
\* reason "Vol spike <ratio>x"; the ratio of the scenario volumes is 150.
C23_VolumeSpikeAlerts ==
    [][(/\ prog = "flask"
        /\ pos \in 1..Len(FlaskKeys)
        /\ pos' # pos
        /\ inp' \in CandleNames
        /\ ~IsSeeding(first, FlaskKeys[pos], last_prices)
        /\ now - Get(last_alert_time, FlaskKeys[pos], 0) >= COOLDOWN_SECONDS
        /\ LastOf(Candles[inp'].closes) = last_prices[FlaskKeys[pos]]
        /\ detect_volume_spike(Candles[inp'].vols, VOLUME_SPIKE_MULTIPLIER)[1])
       => /\ detect_volume_spike(ScenarioVolumes, 100) = <<TRUE, RInt(150)>>
          /\ sink' # <<>>
          /\ sink'[1].kind = "alert"
          /\ sink'[1].volume
          /\ HasVolSpikeReason(sink'[1],
                 detect_volume_spike(Candles[inp'].vols, VOLUME_SPIKE_MULTIPLIER)[2])]_vars

\* The indicators were applied to the series of the configuration.
Applied == prog = "indicators" /\ pos = 1

\* C24: compute_rsi answers None for every series shorter than period + 1,
\* and for every longer one a value from 0 to 100, which is 100 when no
\* close of the trailing period fell.
C24_RsiRange ==
    Applied =>
      IF Len(config.series) < config.period + 1
      THEN ret.rsi = None
      ELSE /\ ret.rsi # None
           /\ RLe(RInt(0), ret.rsi)
           /\ RLe(ret.rsi, RInt(100))
           /\ (SumSeq(LastN(Losses(config.series), config.period)) = 0
               => ret.rsi = RInt(100))

\* C24 witness: a series with rises and falls in the trailing period, whose
\* RSI lies strictly between 0 and 100.
C24_Witness ==
    /\ Applied
    /\ Len(config.series) > config.period + 1
    /\ ret.rsi # None
    /\ RLt(RInt(0), ret.rsi)
    /\ RLt(ret.rsi, RInt(100))

\* The series rises at every step.
Increasing(s) == \A i \in 1..(Len(s) - 1) : s[i] < s[i + 1]

\* C25: for every strictly increasing series and every lookback up to its
\* length minus one, breakout_score gives a positive score and the reason
\* "Breakout sopra max" with the largest of the lookback closes before the
\* newest one.
C25_BreakoutOnIncreasing ==
    (Applied /\ Increasing(config.series) /\ config.period <= Len(config.series) - 1)
    => /\ ret.breakout[1] > 0
       /\ ret.breakout[2] = <<"Breakout sopra max",
                              RInt(config.series[Len(config.series) - 1])>>

\* C25 witness: an increasing series longer than the lookback plus one.
C25_Witness ==
    /\ Applied
    /\ Increasing(config.series)
    /\ config.period = 2
    /\ Len(config.series) = 4
    /\ ret.breakout[1] = 20


\* The task at position pos of the pass of monitor_service or of
\* monitor_bybit_all: <<symbol, timeframe, threshold>>.
TaskAt ==
    IF prog = "service" THEN ServiceTasks(symbols_list, cycle, config)[pos]
    ELSE AllTasks(symbols_list, cycle)[pos]

\* The step observes the key of the task at pos at the price its baseline
\* already holds.
SamePriceAgain ==
    /\ prog \in {"service", "all"}
    /\ pos >= 1
    /\ pos' = pos + 1
    /\ inp' \in DOMAIN Quotes
    /\ <<TaskAt[1], TaskAt[2]>> \in DOMAIN previous_prices
    /\ previous_prices[<<TaskAt[1], TaskAt[2]>>] = Quotes[inp']

\* C26: observing a key again at the price of its baseline gives a variation
\* of exactly 0 (an alert only when the threshold is 0, and then with
\* variation 0) and leaves the baseline at that price, in monitor_service
\* and in monitor_bybit_all.
C26_SamePriceIsZero ==
    [][SamePriceAgain =>
         /\ previous_prices'[<<TaskAt[1], TaskAt[2]>>] = Quotes[inp']
         /\ IF RLe(TaskAt[3], RInt(0))
            THEN /\ sink' # <<>>
                 /\ sink'[1].kind = "alert"
                 /\ sink'[1].variation = RInt(0)
            ELSE sink' = <<>>]_vars

\* C26 witness: in a later pass of monitor_service with a threshold of 0 a
\* key was observed at the price of its baseline and the alert carries the
\* variation 0; the baseline holds that price.
C26_Witness ==
    /\ prog = "service"
    /\ cycle >= 2
    /\ pos = 2
    /\ inp = "q103"
    /\ sink # <<>>
    /\ sink[1].kind = "alert"
    /\ sink[1].variation = RInt(0)
    /\ previous_prices[sink[1].key] = 103


\* The mean of the five samples before the newest, as a rational.
FiveBefore(s) == Mean(SubSeq(s, Len(s) - 5, Len(s) - 1))

\* The volume ratio as the claim words it: the newest sample over the mean of
\* the five before it, and 1 with fewer than six samples or a zero baseline.
ClaimedRatio(s) ==
    IF Len(s) < 6 THEN RInt(1)
    ELSE IF FiveBefore(s)[1] = 0 THEN RInt(1)
    ELSE RDiv(RInt(LastOf(s)), FiveBefore(s))

\* C27, the two functions of monitor_bybit_flask: detect_volume_spike and
\* estimate_volatility_tier give the claimed ratio for every series.
FlaskRatiosAsClaimed ==
    Applied => /\ ret.spike[2] = ClaimedRatio(config.series)
               /\ ret.tier = ClaimedRatio(config.series)

\* C27: the volume ratio is the newest sample over the mean of the five
\* before it and exactly 1 with fewer than six samples or a zero baseline,
\* in detect_volume_spike and estimate_volatility_tier of monitor_bybit_flask
\* and in estimate_risk_profile and the candle ratio of crypto_alert.
C27_VolumeRatio ==
    Applied => /\ ret.spike[2] = ClaimedRatio(config.series)
               /\ ret.tier = ClaimedRatio(config.series)
               /\ ret.risk = ClaimedRatio(config.series)
               /\ ret.candle = ClaimedRatio(config.series)


\* score_signals was applied to the inputs of the configuration.
Scored == prog = "score" /\ pos = 1

\* The texts of the reasons score_signals returned.
ReasonTexts == {ret[2][i][1] : i \in DOMAIN ret[2]}

\* The score and the reasons that the variation and the volume ratio alone
\* account for.
VariationAndVolumeOnly ==
    Normalized(ScoreVolume(ScoreVariation(<<RInt(0), <<>>>>, config.variation),
                           estimate_volatility_tier(ScorePrices[config.prices],
                                                    ScoreVolumes[config.volumes])))

\* C28: an indicator that lacks history adds no points and no reason to
\* score_signals: below 26 prices no MACD reason, below 15 no RSI reason,
\* below 21 no breakout reason, below 2 no EMA reason; with fewer than 2
\* prices the result is what the variation and the volume ratio alone give,
\* and with a neutral volume ratio and a variation of 0 it is 50 with no
\* reasons.
C28_UnavailableAddsNothing ==
    Scored =>
      LET n == Len(ScorePrices[config.prices])
      IN  /\ ret # None
          /\ n < 26 => ReasonTexts \cap {"MACD bullish", "MACD bearish"} = {}
          /\ n < 15 => ReasonTexts \cap {"RSI (oversold)", "RSI (overbought)"} = {}
          /\ n < 21 => ReasonTexts \cap {"Breakout sopra max", "Rotto min"} = {}
          /\ n < 2 => ReasonTexts \cap {"EMA10>EMA30", "EMA10<EMA30"} = {}
          /\ n < 2 => ret = VariationAndVolumeOnly
          /\ (n < 2 /\ config.variation = RInt(0)
                    /\ estimate_volatility_tier(ScorePrices[config.prices],
                                                ScoreVolumes[config.volumes]) = RInt(1))
             => ret = <<50, <<>>>>

\* C28 witness: one price, three volumes and a variation of 0 score 50 with
\* no reasons.
C28_Witness ==
    /\ Scored
    /\ config.prices = "one"
    /\ config.volumes = "few"
    /\ config.variation = RInt(0)
    /\ ret = <<50, <<>>>>


\* C29: when the candle fetch of a candidate fails in a pass of
\* check_changes, the pass sends no alert for that symbol and leaves
\* last_alerts[symbol] as it was at the start of the pass.
C29_FailedCandlesTouchNothing ==
    [][(prog = "crypto" /\ pos' = pos + 1)
       => \A x \in DOMAIN inp'.klines :
            inp'.klines[x] = "fail"
            => /\ \A j \in DOMAIN sink' : sink'[j].key # x
               /\ Get(last_alerts', x, EmptyDict) = Get(last_alerts, x, EmptyDict)]_vars


\* C30: a price_1m or price_2m alert is sent only by the pass of
\* check_changes that detected its crossing: the crossing time an alert
\* carries is the time of the pass that sends it, so a crossing left unsent
\* by its own pass is not sent by a later one.
C30_PriceAlertsAreNotDeferred ==
    [][(prog = "crypto" /\ pos' = pos + 1)
       => \A j \in DOMAIN sink' :
            (sink'[j].kind = "alert" /\ sink'[j].type \in {"price_1m", "price_2m"})
            => sink'[j].ts = now]_vars


\* C31: last_alert_time[key] changes only in the evaluation of key that
\* dispatches an alert for it, and then to the time of that evaluation; an
\* evaluation whose condition is false or that the cooldown suppresses, the
\* end of a cycle and the passing of time leave it as it was.
C31_StampOnlyOnDispatch ==
    [][prog = "flask" =>
         \A i \in 1..Len(FlaskKeys) :
            Get(last_alert_time', FlaskKeys[i], 0) # Get(last_alert_time, FlaskKeys[i], 0)
            => /\ FlaskEval(i)
               /\ Dispatched(sink', FlaskKeys[i])
               /\ last_alert_time'[FlaskKeys[i]] = now]_vars

\* C31 witness: a condition of the key was suppressed one hour after its
\* alert, and the stamp is still the time of that alert.
C31_Witness ==
    /\ prog = "flask"
    /\ pos > 1
    /\ sink = <<>>
    /\ FlaskKeys[pos - 1] \in DOMAIN last_alert_time
    /\ now - last_alert_time[FlaskKeys[pos - 1]] > 0
    /\ now - last_alert_time[FlaskKeys[pos - 1]] < COOLDOWN_SECONDS
    /\ FlaskKeys[pos - 1] \in DOMAIN hist
    /\ hist[FlaskKeys[pos - 1]].dropped = "dropped"
    /\ LastDispatch(hist, FlaskKeys[pos - 1]) = last_alert_time[FlaskKeys[pos - 1]]


\* C32: every evaluation that fetched candles ends with last_prices[key]
\* equal to the newest close, whether an alert went out, the cooldown
\* suppressed it or no condition held; no other step changes the baseline of
\* a key, and an alert reports the variation against the baseline the key
\* held when the evaluation began.
C32_BaselineFollowsLatestClose ==
    [][prog = "flask" =>
         \A i \in 1..Len(FlaskKeys) :
            LET key == FlaskKeys[i]
            IN  IF FlaskEval(i) /\ inp' \in CandleNames
                THEN /\ key \in DOMAIN last_prices'
                     /\ last_prices'[key] = LastOf(Candles[inp'].closes)
                     /\ (Dispatched(sink', key) /\ key \in DOMAIN last_prices)
                        => sink'[1].variation
                             = Variation(LastOf(Candles[inp'].closes), last_prices[key])
                ELSE Get(last_prices', key, 0) = Get(last_prices, key, 0)]_vars

\* C32 witness: an evaluation that the cooldown suppressed has moved the
\* baseline of its key to the newest close, 112.
C32_Witness ==
    /\ prog = "flask"
    /\ pos > 1
    /\ inp = "jump"
    /\ sink = <<>>
    /\ ~first
    /\ now - Get(last_alert_time, FlaskKeys[pos - 1], 0) < COOLDOWN_SECONDS
    /\ FlaskKeys[pos - 1] \in DOMAIN hist
    /\ hist[FlaskKeys[pos - 1]].dropped = "dropped"
    /\ last_prices[FlaskKeys[pos - 1]] = 112


\* The periods of the three windows, in seconds.
WindowPeriod == [w \in {"1m", "2m", "5m"} |->
                    CASE w = "1m" -> 60 [] w = "2m" -> 120 [] w = "5m" -> 300]

\* The pass reads a positive price for the tracked symbol x: its entry is
\* a coin, and no entry before it makes the ticker loop raise.
Repriced(x) ==
    /\ x \in DOMAIN last_prices
    /\ inp'.tickers[x] \in DOMAIN Coins
    /\ Coins[inp'.tickers[x]].price > 0
    /\ \A i \in DOMAIN CryptoSymbols :
          (\E j \in DOMAIN CryptoSymbols : j > i /\ CryptoSymbols[j] = x)
          => inp'.tickers[CryptoSymbols[i]] # "bad"

\* The change of the price the pass reads for x against the reference of
\* window w, in percent.
WindowChange(x, w) ==
    Rat((Coins[inp'.tickers[x]].price - last_prices[x][w].price) * 100,
        last_prices[x][w].price)

\* C33: in a pass of check_changes the reference of a window of a tracked
\* symbol is compared and replaced only when the window's period (60, 120,
\* 300 s) has elapsed since the reference's timestamp: before that the
\* reference and its timestamp stay and no crossing of the window is
\* recorded or sent; once it has elapsed and the pass reads a price for the
\* symbol, the reference becomes that price at the time of the pass, whether
\* or not the threshold was crossed, and a crossing is recorded only if the
\* change reaches the threshold.
C33_WindowReference ==
    [][(prog = "crypto" /\ pos' = pos + 1)
       => \A x \in DOMAIN last_prices : \A w \in DOMAIN WindowPeriod :
            LET elapsed == now - last_prices[x][w].ts >= WindowPeriod[w]
                stamped == /\ x \in DOMAIN last_alerts'
                           /\ Get(last_alerts'[x], "price_" \o w, 0) = now
                sent == \E j \in DOMAIN sink' :
                          /\ sink'[j].key = x
                          /\ sink'[j].type = "price_" \o w
                          /\ sink'[j].ts = now
            IN  /\ ~elapsed => /\ last_prices'[x][w] = last_prices[x][w]
                               /\ ~stamped
                               /\ ~sent
                /\ (elapsed /\ Repriced(x))
                   => /\ last_prices'[x][w]
                           = [price |-> Coins[inp'.tickers[x]].price, ts |-> now]
                      /\ (stamped \/ sent)
                         => RLe(config.PRICE_CHANGE_THRESHOLD, RAbs(WindowChange(x, w)))
                /\ (elapsed /\ ~Repriced(x))
                   => last_prices'[x][w] = last_prices[x][w]]_vars

\* C33 witness: the second pass, one minute after the seeding, read the
\* same price with a threshold of 5: the 1m reference was replaced without a
\* crossing, the 2m and 5m references are those of the seeding.
C33_Witness ==
    /\ prog = "crypto"
    /\ pos = 2
    /\ config.PRICE_CHANGE_THRESHOLD = RInt(5)
    /\ CryptoSymbols[1] \in DOMAIN last_prices
    /\ inp.tickers[CryptoSymbols[1]] = "c100"
    /\ last_prices[CryptoSymbols[1]]["1m"] = [price |-> 100, ts |-> CryptoStart + CHECK_INTERVAL]
    /\ last_prices[CryptoSymbols[1]]["2m"] = [price |-> 100, ts |-> CryptoStart]
    /\ last_prices[CryptoSymbols[1]]["5m"] = [price |-> 100, ts |-> CryptoStart]
    /\ CryptoSymbols[1] \notin DOMAIN last_alerts


\* The pass records a crossing of window w for the tracked symbol x: the
\* window's period has elapsed and the change reaches the threshold.
Crossing(x, w) ==
    /\ Repriced(x)
    /\ now - last_prices[x][w].ts >= WindowPeriod[w]
    /\ RLe(config.PRICE_CHANGE_THRESHOLD, RAbs(WindowChange(x, w)))

\* C34: whenever a pass of check_changes records a crossing for the 1m, 2m
\* or 5m window of a symbol, the symbol is among the candidates kept by the
\* cap and its candle fetch succeeds, the pass sends a price alert for that
\* window.
C34_CrossingIsAlerted ==
    [][(prog = "crypto" /\ pos' = pos + 1)
       => \A x \in DOMAIN last_prices : \A w \in DOMAIN WindowPeriod :
            (/\ Crossing(x, w)
             /\ x \in DOMAIN inp'.klines
             /\ inp'.klines[x] # "fail")
            => \E j \in DOMAIN sink' :
                 sink'[j].key = x /\ sink'[j].type = "price_" \o w]_vars

\* C34, the windows that are sent: the same statement for 1m and 2m only.
ShortWindowsAlerted ==
    [][(prog = "crypto" /\ pos' = pos + 1)
       => \A x \in DOMAIN last_prices : \A w \in {"1m", "2m"} :
            (/\ Crossing(x, w)
             /\ x \in DOMAIN inp'.klines
             /\ inp'.klines[x] # "fail")
            => \E j \in DOMAIN sink' :
                 sink'[j].key = x /\ sink'[j].type = "price_" \o w]_vars


\* C35: the signal handler always gets through its save_state_to_gist()
\* and reaches os._exit: it never waits for _state_lock while the main
\* thread, which cannot run until the handler returns, holds it.
C35_HandlerNeverBlocked ==
    ~(/\ prog = "crypto threads"
      /\ "signal" \in DOMAIN pc
      /\ pc["signal"] = "sig_acquire"
      /\ lock = "main")


\* A report of this kind is started in this step: monitor_loop stamps the
\* start time on the same branch that starts the thread.
Launch(kind, last, lastAfter) ==
    /\ lastAfter # last
    /\ lastAfter = now
    /\ kind \in threads'

\* What must hold of every start of one report kind.
LaunchInOrder(kind, last, lastAfter, interval) ==
    lastAfter # last =>
        /\ Launch(kind, last, lastAfter)
        /\ pos = Len(FlaskKeys) + 1 /\ pos' = 1
        /\ now - last >= interval

\* C36: every report kind is started only by the step that ends a monitor
\* cycle (so at most once per cycle), a start is at least the kind's interval
\* after the previous start of that kind, no report runs before the first
\* cycle has ended and the end of the first cycle starts all three kinds.
C36_ReportCadence ==
    [][prog = "flask" =>
          /\ LaunchInOrder(Report4h, last_r4, last_r4', REPORT_4H_INTERVAL_SEC)
          /\ LaunchInOrder(ReportDaily, last_daily, last_daily', REPORT_DAILY_INTERVAL_SEC)
          /\ LaunchInOrder(ReportWeekly, last_weekly, last_weekly', REPORT_WEEKLY_INTERVAL_SEC)
          /\ threads' # threads =>
                \/ last_r4' # last_r4
                \/ last_daily' # last_daily
                \/ last_weekly' # last_weekly
          /\ first => threads = {}
          /\ first /\ ~first' =>
                /\ Launch(Report4h, last_r4, last_r4')
                /\ Launch(ReportDaily, last_daily, last_daily')
                /\ Launch(ReportWeekly, last_weekly, last_weekly')]_vars

\* The 4h report has been started a second time: its stamp is at least one
\* interval after the end of the first cycle, which the daily stamp keeps.
C36_Witness ==
    /\ prog = "flask"
    /\ ~first
    /\ last_daily >= StartTime
    /\ last_r4 >= last_daily + REPORT_4H_INTERVAL_SEC
    /\ threads = {Report4h, ReportDaily, ReportWeekly}


\* What the monitor loop reads and writes when it decides on alerts.
monitorVars ==
    <<now, inp, pos, last_prices, last_alert_time, last_volume_alert_time,
      first, last_hb, last_r4, last_daily, last_weekly, threads, hist, gap>>

\* C37: with report threads interleaved at every point of the cycle, every
\* step is either a step the monitor loop takes from the same values of its
\* own variables, with the same messages, or a step that leaves last_prices,
\* last_alert_time, last_volume_alert_time and everything else the monitor
\* reads as they were: the reports cannot change an alert decision.
C37_ReportsDoNotInterfere ==
    [][prog = "flask" => (NextFlask \/ UNCHANGED monitorVars)]_vars

\* A report has run in the middle of a cycle, after the baseline of a key
\* was stored and before the next key is evaluated.
C37_Witness ==
    /\ prog = "flask"
    /\ DOMAIN pc # {}
    /\ pos \in 2..Len(FlaskKeys)
    /\ DOMAIN last_prices # {}
    /\ sink # <<>>
    /\ sink[1].kind = "report"


\* No request of the get_all_tickers() call of this pass was answered.
NoAnswer(r) == \A i \in 1..MAX_RETRIES : r.answers[i] # "ok"

\* C38: get_all_tickers makes at most MAX_RETRIES requests; when none is
\* answered (each fails or is rate-limited) it has made exactly MAX_RETRIES
\* and returns the empty list, otherwise it stops at the first answer; a
\* pass that gets an empty list sends nothing and leaves last_prices,
\* last_alerts, last_volumes and kline_cache as they were.
C38_NoTickersNoEffect ==
    [][prog = "crypto" /\ pos' = pos + 1 =>
          /\ ret'.attempts <= MAX_RETRIES
          /\ NoAnswer(ret') => ret'.attempts = MAX_RETRIES /\ ret'.list = <<>>
          /\ ~NoAnswer(ret') =>
                /\ ret'.answers[ret'.attempts] = "ok"
                /\ \A i \in 1..(ret'.attempts - 1) : ret'.answers[i] # "ok"
                /\ ret'.list = TickerList(inp'.tickers, 1)
          /\ ret'.list = <<>> =>
                /\ sink' = <<>>
                /\ UNCHANGED <<last_prices, last_alerts, last_volumes, kline_cache>>]_vars

\* The second pass met a rate limit and an exception and no answer, while
\* the exchange lists the symbol whose price the first pass stored.
C38_Witness ==
    /\ prog = "crypto"
    /\ pos = 2
    /\ NoAnswer(ret)
    /\ \E i, j \in 1..MAX_RETRIES : ret.answers[i] = "429" /\ ret.answers[j] = "error"
    /\ ret.attempts = MAX_RETRIES
    /\ inp.tickers[CryptoSymbols[1]] = "c100"
    /\ CryptoSymbols[1] \in DOMAIN last_prices
    /\ sink = <<>>

\* The pass that ends in this step raised: the handler of monitor_loop
\* stamped last_alerts["_last_error"] with the time of the pass.
PassFailed ==
    /\ "_last_error" \in DOMAIN last_alerts'
    /\ last_alerts'["_last_error"].ts = now

\* C39: backoff stays within 1..300; a failed pass sleeps min(60, backoff)
\* seconds, never more than 60, and then doubles backoff up to 300; a pass
\* that completes resets it to 1.
C39_BackoffRange ==
    [][prog = "crypto" /\ pos' = pos + 1 =>
          /\ backoff \in 1..300
          /\ backoff' \in 1..300
          /\ PassFailed =>
                /\ backoff' = (IF backoff * 2 > 300 THEN 300 ELSE backoff * 2)
                /\ now' - now <= 60
                /\ now' - now = (IF backoff > 60 THEN 60 ELSE backoff)
          /\ ~PassFailed => backoff' = 1]_vars

\* Nine passes in a row failed on an entry that is not a dictionary: the
\* backoff has reached its cap.
C39_Witness ==
    /\ prog = "crypto"
    /\ pos >= 9
    /\ backoff = 300
    /\ inp.tickers[CryptoSymbols[2]] = "bad"
    /\ "_last_error" \in DOMAIN last_alerts

=============================================================================
